---- MODULE Spec2Model ----
(***************************************************************************)
(* A model of the AssetManager binding (android_util_AssetManager.cpp):    *)
(* the cookie conversion at the Java boundary, the per-context lock every  *)
(* entry point takes (ScopedLockedAssetsOperation), the theme entry points *)
(* and the value / reference lookups.  The engine the binding calls        *)
(* (AssetManager2, Theme) is not part of this file; where a property needs *)
(* its behaviour it is modelled after the design document.                 *)
(***************************************************************************)
EXTENDS Integers, Sequences, FiniteSets, TLC

(***************************************************************************)
(* Bounds of the model.                                                    *)
(***************************************************************************)
\* the largest stack index used as a sample cookie
MaxCookie == 5

(***************************************************************************)
(* Program constants.                                                      *)
(***************************************************************************)
\* the internal "no cookie" marker of the engine
kInvalidCookie == -1
\* the largest and the smallest value of a jint / int32_t
INT32_MAX == 2147483647
INT32_MIN == (-2147483647) - 1

VARIABLES
  \* ---- cookie conversion at the boundary
  cookie,      \* an ApkAssetsCookie handed to the boundary
  jcookie,     \* the jint the Java side holds
  decoded,     \* the ApkAssetsCookie decoded from jcookie
  round_trip   \* TRUE when jcookie was produced by encoding `cookie`

cookieVars == <<cookie, jcookie, decoded, round_trip>>

VARIABLES
  \* ---- contexts, their locks and the calls in flight
  lock,        \* per context: the thread that holds its mutex, or NoThread
  pc,          \* per thread: the position of its call
  call,        \* per thread: the entry point it runs and its arguments
  theme_am,    \* per theme: the context it is attached to (GetAssetManager)
  aborted      \* TRUE once a CHECK has failed and the process has aborted

lockVars == <<lock, pc, call, theme_am, aborted>>

VARIABLES
  \* ---- the state of each Resolution Context (AssetManager2)
  configurations,  \* per context: the active configuration list
  default_locale,  \* per context: the default locale
  apk_assets,      \* per context: the source stack, indexed by cookie + 1
  package_ids,     \* per context: the packages indexed from the stack
  committed,       \* per context: its state when its lock was last released
  observed         \* per thread: the context state its lookup has read

amVars == <<configurations, default_locale, apk_assets, package_ids>>

mutVars == <<amVars, committed, observed>>

VARIABLES
  \* ---- resource tables and a value lookup in flight
  arsc,        \* per source: its resource table (resource id -> entry)
  ref_pc,      \* the position of the NativeGetResourceValue call
  ref_call,    \* its arguments: resid, resolve_references
  value,       \* the SelectedValue it holds (std::optional)
  iterations,  \* the indirection steps ResolveReference has made
  typed_value  \* what the call returns: the jint and the TypedValue fields

resVars == <<arsc, ref_pc, ref_call, value, iterations, typed_value>>

VARIABLES
  \* ---- themes and the results handed to the caller
  theme_entries,  \* per theme: attribute key -> resolved value
  theme_log,      \* per theme: the (style id, force) pairs applied to it
  delivered       \* the entry point that returned last and what it returned

themeVars == <<theme_entries, theme_log, delivered>>

VARIABLES
  \* ---- what a call in flight holds of the VM and what it handed back
  critical,    \* per thread: the primitive arrays it holds critical
  outcome      \* per thread: what its last call returned and threw

jniVars == <<critical, outcome>>

vars == <<cookieVars, lockVars, mutVars, resVars, themeVars, jniVars>>

\* what the actions of each group leave alone
cookieFrame == <<lockVars, mutVars, resVars, themeVars, jniVars>>
lockFrame == <<cookieVars, mutVars, resVars, themeVars, jniVars>>
mutFrame == <<cookieVars, resVars, themeVars, jniVars>>
refFrame == <<cookieVars, lockVars, mutVars, themeVars, jniVars>>
jniFrame == <<cookieVars, resVars, themeVars>>

(***************************************************************************)
(* Cookie conversion (lines 121-142).                                      *)
(***************************************************************************)
\* cookie + 1 in 32-bit two's complement arithmetic
Int32Succ(c) == IF c = INT32_MAX THEN INT32_MIN ELSE c + 1

\* cookie - 1 in 32-bit two's complement arithmetic
Int32Pred(c) == IF c = INT32_MIN THEN INT32_MAX ELSE c - 1

ApkAssetsCookieToJavaCookie_NoShift(c) == IF c # kInvalidCookie THEN c ELSE -1

ApkAssetsCookieToJavaCookie(c) ==
  IF c # kInvalidCookie THEN Int32Succ(c) ELSE -1

JavaCookieToApkAssetsCookie_NonZero(j) ==
  IF j # 0 THEN Int32Pred(j) ELSE kInvalidCookie

JavaCookieToApkAssetsCookie(j) ==
  IF j > 0 THEN Int32Pred(j) ELSE kInvalidCookie

\* the cookies the engine can hand out: the invalid marker and stack indices;
\* a stack is built from a Java array, so its largest index is INT32_MAX - 1
InternalCookies == {kInvalidCookie} \cup (0..MaxCookie) \cup {INT32_MAX - 1}

\* the jint values a caller can pass as a cookie
JavaCookies ==
  ((0 - (MaxCookie + 1))..(MaxCookie + 1)) \cup {INT32_MIN, INT32_MAX}

CookieStart ==
  /\ cookie = kInvalidCookie
  /\ jcookie = 0
  /\ decoded = kInvalidCookie
  /\ round_trip = FALSE

\* CopyValue hands the encoded cookie to the caller, who passes it back to
\* an entry point that decodes it (NativeOpenNonAsset and friends).
CopyValueCookie ==
  \E c \in InternalCookies :
    /\ cookie' = c
    /\ jcookie' = ApkAssetsCookieToJavaCookie(c)
    /\ decoded' = JavaCookieToApkAssetsCookie(ApkAssetsCookieToJavaCookie(c))
    /\ round_trip' = TRUE

\* An entry point decodes an arbitrary jint supplied by the caller.
DecodeCallerCookie ==
  \E j \in JavaCookies :
    /\ jcookie' = j
    /\ decoded' = JavaCookieToApkAssetsCookie(j)
    /\ round_trip' = FALSE
    /\ UNCHANGED cookie


(***************************************************************************)
(* Contexts, locks and calls in flight.                                    *)
(***************************************************************************)
\* the GuardedAssetManager instances (NativeCreate)
AMs == {"A", "B"}
\* the Theme objects (NativeThemeCreate)
Themes == {"T1", "T2"}
\* the caller threads
Threads == {"t1", "t2"}

NoThread == "none"
NoAM == "none"
NoTheme == "none"

\* the record of a thread that runs no entry point
NoCall ==
  [op |-> "none", ptr |-> NoAM, theme |-> NoTheme,
   src_ptr |-> NoAM, src_theme |-> NoTheme]

\* a call of an entry point that takes a context handle and a theme handle
ThemeCall(op, ptr, theme) ==
  [op |-> op, ptr |-> ptr, theme |-> theme,
   src_ptr |-> NoAM, src_theme |-> NoTheme]

\* no array held critical, no stray release, nothing returned yet
NoCritical == [held |-> {}, stray |-> {}]
NoOutcome == [op |-> "none"]

JniStart ==
  /\ critical = [t \in Threads |-> NoCritical]
  /\ outcome = [t \in Threads |-> NoOutcome]

LockStart ==
  /\ lock = [am \in AMs |-> NoThread]
  /\ pc = [t \in Threads |-> "idle"]
  /\ call = [t \in Threads |-> NoCall]
  /\ theme_am = [th \in Themes |-> NoAM]
  /\ aborted = FALSE
  /\ JniStart

\* ScopedLock<AssetManager2>: the mutex of a Guarded<AssetManager2> can be
\* taken only while no thread holds it.
Acquirable_Always(am) == TRUE

Acquirable(am) == lock[am] = NoThread

\* LockAndStartAssetManager(ptr): the thread blocks until the mutex is free.
LockAndStartAssetManager(t, am, next) ==
  /\ ~aborted
  /\ Acquirable(am)
  /\ lock' = [lock EXCEPT ![am] = t]
  /\ pc' = [pc EXCEPT ![t] = next]
  /\ UNCHANGED <<call, theme_am, aborted>>

\* ~ScopedLockedAssetsOperation: the operation ends and the mutex is freed.
EndOperation(t, am, next) ==
  /\ ~aborted
  /\ lock' = [lock EXCEPT ![am] = NoThread]
  /\ pc' = [pc EXCEPT ![t] = next]
  /\ call' = IF next = "idle" THEN [call EXCEPT ![t] = NoCall] ELSE call
  /\ UNCHANGED <<theme_am, aborted>>

\* CHECK(theme->GetAssetManager() == &(*assetmanager)): abort on a mismatch.
CheckThemeAssetManager(t, theme, am, next) ==
  /\ ~aborted
  /\ IF theme_am[theme] = am
       THEN /\ pc' = [pc EXCEPT ![t] = next]
            /\ UNCHANGED aborted
       ELSE /\ pc' = [pc EXCEPT ![t] = "aborted"]
            /\ aborted' = TRUE
  /\ UNCHANGED <<lock, call, theme_am>>

\* a theme handle a caller can pass: the theme exists, and it is not being
\* created or freed by a call in flight
LiveTheme(th) ==
  /\ theme_am[th] # NoAM
  /\ \A u \in Threads :
       call[u].op \in {"NativeThemeCreate", "NativeThemeDestroy"}
         => call[u].theme # th

\* the entry points that lock the context, CHECK the theme and then use it
CheckedThemeOps ==
  {"NativeAttributeResolutionStack", "NativeApplyStyle",
   "NativeApplyStyleWithArray", "NativeResolveAttrs",
   "NativeThemeApplyStyle", "NativeThemeGetAttributeValue", "NativeThemeDump"}

\* ---- an entry point is called
InvokeCheckedThemeOp(t) ==
  \E op \in CheckedThemeOps, am \in AMs, th \in Themes :
    /\ ~aborted /\ pc[t] = "idle" /\ LiveTheme(th)
    /\ call' = [call EXCEPT ![t] = ThemeCall(op, am, th)]
    /\ pc' = [pc EXCEPT ![t] = "lock"]
    /\ UNCHANGED <<lock, theme_am, aborted>>

\* ---- NativeAttributeResolutionStack ... NativeThemeDump (one shape)
CheckedThemeOpLock(t) ==
  /\ pc[t] = "lock" /\ call[t].op \in CheckedThemeOps
  /\ LockAndStartAssetManager(t, call[t].ptr, "check")

CheckedThemeOpCheck(t) ==
  /\ pc[t] = "check" /\ call[t].op \in CheckedThemeOps
  /\ CheckThemeAssetManager(t, call[t].theme, call[t].ptr, "theme")

\* the call into the theme (theme->ApplyStyle, GetAttribute, Dump, ...)
CheckedThemeOpUse(t) ==
  /\ ~aborted
  /\ pc[t] = "theme" /\ call[t].op \in CheckedThemeOps
  /\ pc' = [pc EXCEPT ![t] = "unlock"]
  /\ UNCHANGED <<lock, call, theme_am, aborted>>

CheckedThemeOpReturn(t) ==
  /\ pc[t] = "unlock" /\ call[t].op \in CheckedThemeOps
  /\ EndOperation(t, call[t].ptr, "idle")

\* ---- NativeThemeCreate (lines 1440-1443)
InvokeThemeCreate(t) ==
  \E am \in AMs, th \in Themes :
    /\ ~aborted /\ pc[t] = "idle"
    /\ theme_am[th] = NoAM
    /\ \A u \in Threads : call[u].theme # th
    /\ call' = [call EXCEPT ![t] = ThemeCall("NativeThemeCreate", am, th)]
    /\ pc' = [pc EXCEPT ![t] = "lock"]
    /\ UNCHANGED <<lock, theme_am, aborted>>

ThemeCreateLock(t) ==
  /\ pc[t] = "lock" /\ call[t].op = "NativeThemeCreate"
  /\ LockAndStartAssetManager(t, call[t].ptr, "new_theme")

\* assetmanager->NewTheme(): the new theme is attached to the locked context
ThemeCreateNewTheme(t) ==
  /\ ~aborted
  /\ pc[t] = "new_theme" /\ call[t].op = "NativeThemeCreate"
  /\ theme_am' = [theme_am EXCEPT ![call[t].theme] = call[t].ptr]
  /\ pc' = [pc EXCEPT ![t] = "unlock"]
  /\ UNCHANGED <<lock, call, aborted>>

ThemeCreateReturn(t) ==
  /\ pc[t] = "unlock" /\ call[t].op = "NativeThemeCreate"
  /\ EndOperation(t, call[t].ptr, "idle")

\* ---- NativeThemeDestroy (lines 1445-1447): the free function of a theme
\* no caller holds any more; it takes no lock.
InvokeThemeDestroy(t) ==
  \E th \in Themes :
    /\ ~aborted /\ pc[t] = "idle" /\ LiveTheme(th)
    /\ \A u \in Threads : call[u].theme # th /\ call[u].src_theme # th
    /\ call' = [call EXCEPT ![t] = ThemeCall("NativeThemeDestroy", NoAM, th)]
    /\ pc' = [pc EXCEPT ![t] = "theme"]
    /\ UNCHANGED <<lock, theme_am, aborted>>

ThemeDestroyDelete(t) ==
  /\ ~aborted
  /\ pc[t] = "theme" /\ call[t].op = "NativeThemeDestroy"
  /\ theme_am' = [theme_am EXCEPT ![call[t].theme] = NoAM]
  /\ pc' = [pc EXCEPT ![t] = "idle"]
  /\ call' = [call EXCEPT ![t] = NoCall]
  /\ UNCHANGED <<lock, aborted>>

\* ---- NativeThemeGetChangingConfigurations (lines 1567-1571): no lock.
InvokeThemeGetChangingConfigurations(t) ==
  \E th \in Themes :
    /\ ~aborted /\ pc[t] = "idle" /\ LiveTheme(th)
    /\ call' = [call EXCEPT ![t] =
                  ThemeCall("NativeThemeGetChangingConfigurations", NoAM, th)]
    /\ pc' = [pc EXCEPT ![t] = "theme"]
    /\ UNCHANGED <<lock, theme_am, aborted>>

ThemeGetChangingConfigurationsRead(t) ==
  /\ ~aborted
  /\ pc[t] = "theme" /\ call[t].op = "NativeThemeGetChangingConfigurations"
  /\ pc' = [pc EXCEPT ![t] = "idle"]
  /\ call' = [call EXCEPT ![t] = NoCall]
  /\ UNCHANGED <<lock, theme_am, aborted>>

\* ---- NativeThemeRebase (lines 1469-1510): locks the context given by ptr
\* only, makes no CHECK, and rebases the theme onto that context.
InvokeThemeRebase(t) ==
  \E am \in AMs, th \in Themes :
    /\ ~aborted /\ pc[t] = "idle" /\ LiveTheme(th)
    /\ call' = [call EXCEPT ![t] = ThemeCall("NativeThemeRebase", am, th)]
    /\ pc' = [pc EXCEPT ![t] = "lock"]
    /\ UNCHANGED <<lock, theme_am, aborted>>

ThemeRebaseLock(t) ==
  /\ pc[t] = "lock" /\ call[t].op = "NativeThemeRebase"
  /\ LockAndStartAssetManager(t, call[t].ptr, "theme")

\* theme->Rebase(&(*assetmanager), ...): the theme now belongs to ptr
ThemeRebaseRebase(t) ==
  /\ ~aborted
  /\ pc[t] = "theme" /\ call[t].op = "NativeThemeRebase"
  /\ theme_am' = [theme_am EXCEPT ![call[t].theme] = call[t].ptr]
  /\ pc' = [pc EXCEPT ![t] = "unlock"]
  /\ UNCHANGED <<lock, call, aborted>>

ThemeRebaseReturn(t) ==
  /\ pc[t] = "unlock" /\ call[t].op = "NativeThemeRebase"
  /\ EndOperation(t, call[t].ptr, "idle")

\* (mutation) the destination context locked whatever the handles are
CopyLocksDst_Always(dst_ptr, src_ptr) == TRUE

\* line 1520: the destination context is locked only when it is not the
\* source context
CopyLocksDst(dst_ptr, src_ptr) == dst_ptr # src_ptr

\* ---- NativeThemeCopy (lines 1512-1527)
InvokeThemeCopy(t) ==
  \E dst_am \in AMs, dst \in Themes, src_am \in AMs, src \in Themes :
    /\ ~aborted /\ pc[t] = "idle" /\ LiveTheme(dst) /\ LiveTheme(src)
    /\ call' = [call EXCEPT ![t] =
                  [op |-> "NativeThemeCopy", ptr |-> dst_am, theme |-> dst,
                   src_ptr |-> src_am, src_theme |-> src]]
    /\ pc' = [pc EXCEPT ![t] = "lock_src"]
    /\ UNCHANGED <<lock, theme_am, aborted>>

ThemeCopyLockSrc(t) ==
  /\ pc[t] = "lock_src" /\ call[t].op = "NativeThemeCopy"
  /\ LockAndStartAssetManager(t, call[t].src_ptr, "check_src")

\* CHECK on the source theme, then the branch on the two context handles
ThemeCopyCheckSrc(t) ==
  /\ pc[t] = "check_src" /\ call[t].op = "NativeThemeCopy"
  /\ CheckThemeAssetManager(t, call[t].src_theme, call[t].src_ptr,
       IF CopyLocksDst(call[t].ptr, call[t].src_ptr) THEN "lock_dst" ELSE "theme")

ThemeCopyLockDst(t) ==
  /\ pc[t] = "lock_dst" /\ call[t].op = "NativeThemeCopy"
  /\ LockAndStartAssetManager(t, call[t].ptr, "check_dst")

ThemeCopyCheckDst(t) ==
  /\ pc[t] = "check_dst" /\ call[t].op = "NativeThemeCopy"
  /\ CheckThemeAssetManager(t, call[t].theme, call[t].ptr, "theme")

\* dst_theme->SetTo(*src_theme): the content is copied, each theme keeps its
\* context
ThemeCopySetTo(t) ==
  /\ ~aborted
  /\ pc[t] = "theme" /\ call[t].op = "NativeThemeCopy"
  /\ pc' = [pc EXCEPT ![t] =
              IF CopyLocksDst(call[t].ptr, call[t].src_ptr)
              THEN "unlock_dst" ELSE "unlock"]
  /\ UNCHANGED <<lock, call, theme_am, aborted>>

ThemeCopyUnlockDst(t) ==
  /\ pc[t] = "unlock_dst" /\ call[t].op = "NativeThemeCopy"
  /\ EndOperation(t, call[t].ptr, "unlock")

ThemeCopyReturn(t) ==
  /\ pc[t] = "unlock" /\ call[t].op = "NativeThemeCopy"
  /\ EndOperation(t, call[t].src_ptr, "idle")

\* a step of a call of a theme entry point in flight
Step(t) ==
  \/ CheckedThemeOpLock(t)
  \/ CheckedThemeOpCheck(t)
  \/ CheckedThemeOpUse(t)
  \/ CheckedThemeOpReturn(t)
  \/ ThemeCreateLock(t)
  \/ ThemeCreateNewTheme(t)
  \/ ThemeCreateReturn(t)
  \/ ThemeDestroyDelete(t)
  \/ ThemeGetChangingConfigurationsRead(t)
  \/ ThemeRebaseLock(t)
  \/ ThemeRebaseRebase(t)
  \/ ThemeRebaseReturn(t)
  \/ ThemeCopyLockSrc(t)
  \/ ThemeCopyCheckSrc(t)
  \/ ThemeCopyLockDst(t)
  \/ ThemeCopyCheckDst(t)
  \/ ThemeCopySetTo(t)
  \/ ThemeCopyUnlockDst(t)
  \/ ThemeCopyReturn(t)

LockNext ==
  \/ \E t \in Threads : InvokeCheckedThemeOp(t) /\ UNCHANGED lockFrame
  \/ \E t \in Threads : InvokeThemeCreate(t) /\ UNCHANGED lockFrame
  \/ \E t \in Threads : InvokeThemeDestroy(t) /\ UNCHANGED lockFrame
  \/ \E t \in Threads : InvokeThemeGetChangingConfigurations(t) /\ UNCHANGED lockFrame
  \/ \E t \in Threads : InvokeThemeRebase(t) /\ UNCHANGED lockFrame
  \/ \E t \in Threads : InvokeThemeCopy(t) /\ UNCHANGED lockFrame
  \/ \E t \in Threads : CheckedThemeOpLock(t) /\ UNCHANGED lockFrame
  \/ \E t \in Threads : CheckedThemeOpCheck(t) /\ UNCHANGED lockFrame
  \/ \E t \in Threads : CheckedThemeOpUse(t) /\ UNCHANGED lockFrame
  \/ \E t \in Threads : CheckedThemeOpReturn(t) /\ UNCHANGED lockFrame
  \/ \E t \in Threads : ThemeCreateLock(t) /\ UNCHANGED lockFrame
  \/ \E t \in Threads : ThemeCreateNewTheme(t) /\ UNCHANGED lockFrame
  \/ \E t \in Threads : ThemeCreateReturn(t) /\ UNCHANGED lockFrame
  \/ \E t \in Threads : ThemeDestroyDelete(t) /\ UNCHANGED lockFrame
  \/ \E t \in Threads : ThemeGetChangingConfigurationsRead(t) /\ UNCHANGED lockFrame
  \/ \E t \in Threads : ThemeRebaseLock(t) /\ UNCHANGED lockFrame
  \/ \E t \in Threads : ThemeRebaseRebase(t) /\ UNCHANGED lockFrame
  \/ \E t \in Threads : ThemeRebaseReturn(t) /\ UNCHANGED lockFrame
  \/ \E t \in Threads : ThemeCopyLockSrc(t) /\ UNCHANGED lockFrame
  \/ \E t \in Threads : ThemeCopyCheckSrc(t) /\ UNCHANGED lockFrame
  \/ \E t \in Threads : ThemeCopyLockDst(t) /\ UNCHANGED lockFrame
  \/ \E t \in Threads : ThemeCopyCheckDst(t) /\ UNCHANGED lockFrame
  \/ \E t \in Threads : ThemeCopySetTo(t) /\ UNCHANGED lockFrame
  \/ \E t \in Threads : ThemeCopyUnlockDst(t) /\ UNCHANGED lockFrame
  \/ \E t \in Threads : ThemeCopyReturn(t) /\ UNCHANGED lockFrame

\* the contexts whose locked section (between start-operation and
\* end-operation) thread t is inside, read off its position
LockedSections(t) ==
  IF call[t].op = "NativeThemeCopy"
    THEN (IF pc[t] \in {"check_src", "lock_dst", "check_dst", "theme",
                        "unlock_dst", "unlock"}
            THEN {call[t].src_ptr} ELSE {})
         \cup
         (IF pc[t] \in {"check_dst", "theme", "unlock_dst"}
            THEN {call[t].ptr} ELSE {})
    ELSE IF pc[t] \in {"check", "theme", "unlock", "new_theme",
                       "set_configurations", "set_default_locale",
                       "set_apk_assets", "rebuild", "get_resource"}
              /\ call[t].ptr # NoAM
           THEN {call[t].ptr}
           ELSE {}

\* C1: at most one operation is inside the locked section of a context at
\* any time.
C1_OperationsSerialized ==
  \A t, u \in Threads :
    t # u => LockedSections(t) \cap LockedSections(u) = {}

\* one call is inside the locked section of a context while another call on
\* the same context waits for the lock
C1_Witness ==
  \E t, u \in Threads :
    /\ t # u
    /\ pc[t] = "theme" /\ call[t].op = "NativeThemeApplyStyle"
    /\ pc[u] = "lock" /\ call[u].ptr = call[t].ptr

\* the handles of the call of thread t name each theme with its own context,
\* so that no CHECK of the call can fail
HandlesMatch(t) ==
  /\ call[t].theme # NoTheme /\ call[t].ptr # NoAM
       => theme_am[call[t].theme] \in {call[t].ptr, NoAM}
  /\ call[t].src_theme # NoTheme
       => theme_am[call[t].src_theme] = call[t].src_ptr

\* C2 (as claimed): no deadlock; whenever calls are in flight (each with
\* handles that pass its CHECKs), one of them can take its next step, so every
\* call can run to its return.
C2_CallsCanProceed ==
  (/\ ~aborted
   /\ \E t \in Threads : pc[t] # "idle"
   /\ \A t \in Threads : HandlesMatch(t))
    => ENABLED (\E t \in Threads : Step(t))

\* the themes the call of thread t is using at its position
ThemesInUse(t) ==
  IF pc[t] # "theme" THEN {}
  ELSE IF call[t].op = "NativeThemeCopy"
         THEN {call[t].theme, call[t].src_theme}
         ELSE {call[t].theme}

\* C3 (as claimed): an entry point uses a Theme only while it holds the lock
\* of the context the Theme is attached to.
C3_ThemeUsedUnderItsLock ==
  \A t \in Threads : \A th \in ThemesInUse(t) :
    theme_am[th] # NoAM /\ lock[theme_am[th]] = t

\* C5 (as claimed): an entry point that receives a context handle and a theme
\* handle never reaches its use of the Theme when the Theme's context is not
\* the context it locked: the CHECK has aborted the process before.
C5_MismatchAbortsBeforeUse ==
  \A t \in Threads :
    pc[t] = "theme" =>
      /\ call[t].op \in CheckedThemeOps \cup {"NativeThemeRebase", "NativeThemeCopy"}
           => theme_am[call[t].theme] = call[t].ptr
      /\ call[t].op = "NativeThemeCopy"
           => theme_am[call[t].src_theme] = call[t].src_ptr

\* the context whose lock thread t is about to take at its position
LockWanted(t) ==
  IF pc[t] = "lock_src" THEN {call[t].src_ptr}
  ELSE IF pc[t] \in {"lock", "lock_dst"} THEN {call[t].ptr}
  ELSE {}

\* C25: no call tries to take a context lock it already holds; a
\* NativeThemeCopy whose two context handles are equal uses the themes under
\* the one lock it took, and a checked theme call such as
\* NativeThemeGetAttributeValue goes from its CHECK to its use of the theme
\* and of the theme's context without a second lock step.
C25_NoLockTakenTwice ==
  \A t \in Threads :
    /\ \A am \in LockWanted(t) : lock[am] # t
    /\ (pc[t] = "theme" /\ call[t].op \in CheckedThemeOps \cup {"NativeThemeCopy"})
         => \A am \in AMs \ LockedSections(t) : lock[am] # t

C25_Witness ==
  \E t \in Threads :
    /\ call[t].op = "NativeThemeCopy"
    /\ call[t].ptr = call[t].src_ptr
    /\ pc[t] = "theme"
    /\ lock[call[t].ptr] = t

\* C26 (as claimed): while NativeThemeRebase rebases a Theme, the calling
\* thread holds the lock of the context the Theme is attached to and the lock
\* of the new context.
C26_RebaseHoldsBothLocks ==
  \A t \in Threads :
    (call[t].op = "NativeThemeRebase" /\ pc[t] = "theme")
      => /\ lock[call[t].ptr] = t
         /\ lock[theme_am[call[t].theme]] = t

(***************************************************************************)
(* Mutation of a context against concurrent lookups.                       *)
(***************************************************************************)
\* the locale of a configuration that names none, and the default locale 0
NoLocale == ""

\* the loaded ApkAssets objects a caller can put on a stack
Sources == {"X", "Y"}

\* the package a source contributes
PackageOf(src) == IF src = "X" THEN "base" ELSE "overlay"

\* the package index the engine derives from a stack
PackagesOf(stack) == {PackageOf(stack[i]) : i \in 1..Len(stack)}

\* the state of a context a lookup reads
ContextState(am) ==
  [configurations |-> configurations[am], default_locale |-> default_locale[am],
   apk_assets |-> apk_assets[am], package_ids |-> package_ids[am]]

NoObservation == [none |-> TRUE]

\* the contexts with one default configuration and the given source stacks
LoadedContexts(stacks) ==
  /\ configurations = [am \in AMs |-> <<NoLocale>>]
  /\ default_locale = [am \in AMs |-> NoLocale]
  /\ apk_assets = stacks
  /\ package_ids = [am \in AMs |-> PackagesOf(stacks[am])]
  /\ committed = [am \in AMs |->
       [configurations |-> <<NoLocale>>, default_locale |-> NoLocale,
        apk_assets |-> stacks[am], package_ids |-> PackagesOf(stacks[am])]]
  /\ observed = [t \in Threads |-> NoObservation]

\* a context after NativeCreate: one default configuration, no sources
MutStart == LoadedContexts([am \in AMs |-> <<>>])

\* the locale arrays and default locales a caller passes
LocaleArrays == {<<>>, <<"en", "fr">>}
DefaultLocales == {NoLocale, "en"}
\* the source arrays a caller passes
SourceArrays == {<<"X">>, <<"X", "Y">>}

\* lines 444-454: one configuration per locale, or the single base one
ConfigsFor(locales) ==
  IF Len(locales) > 0 THEN locales ELSE <<NoLocale>>

\* a call of an entry point that takes a context handle and input data
DataCall(op, ptr, input) ==
  [op |-> op, ptr |-> ptr, theme |-> NoTheme,
   src_ptr |-> NoAM, src_theme |-> NoTheme, input |-> input]

\* the end of an operation that may have changed the context
EndMutation(t, am) ==
  /\ EndOperation(t, am, "idle")
  /\ committed' = [committed EXCEPT ![am] = ContextState(am)]
  /\ UNCHANGED <<amVars, observed>>

\* ---- NativeSetConfiguration (lines 400-469)
InvokeSetConfiguration(t) ==
  \E am \in AMs, locales \in LocaleArrays, dl \in DefaultLocales :
    /\ ~aborted /\ pc[t] = "idle"
    /\ call' = [call EXCEPT ![t] =
         DataCall("NativeSetConfiguration", am,
                  [configs |-> ConfigsFor(locales), default_locale_int |-> dl])]
    /\ pc' = [pc EXCEPT ![t] = "lock"]
    /\ UNCHANGED <<lock, theme_am, aborted, mutVars>>

SetConfigurationLock(t) ==
  /\ pc[t] = "lock" /\ call[t].op = "NativeSetConfiguration"
  /\ LockAndStartAssetManager(t, call[t].ptr, "set_configurations")
  /\ UNCHANGED mutVars

\* assetmanager->SetConfigurations(std::move(configs), force_refresh)
SetConfigurationSetConfigurations(t) ==
  /\ ~aborted
  /\ pc[t] = "set_configurations" /\ call[t].op = "NativeSetConfiguration"
  /\ configurations' =
       [configurations EXCEPT ![call[t].ptr] = call[t].input.configs]
  /\ pc' = [pc EXCEPT ![t] = "set_default_locale"]
  /\ UNCHANGED <<lock, call, theme_am, aborted>>
  /\ UNCHANGED <<default_locale, apk_assets, package_ids, committed, observed>>

\* assetmanager->SetDefaultLocale(default_locale_int)
SetConfigurationSetDefaultLocale(t) ==
  /\ ~aborted
  /\ pc[t] = "set_default_locale" /\ call[t].op = "NativeSetConfiguration"
  /\ default_locale' =
       [default_locale EXCEPT ![call[t].ptr] = call[t].input.default_locale_int]
  /\ pc' = [pc EXCEPT ![t] = "unlock"]
  /\ UNCHANGED <<lock, call, theme_am, aborted>>
  /\ UNCHANGED <<configurations, apk_assets, package_ids, committed, observed>>

SetConfigurationReturn(t) ==
  /\ pc[t] = "unlock" /\ call[t].op = "NativeSetConfiguration"
  /\ EndMutation(t, call[t].ptr)

\* ---- NativeSetApkAssets (lines 362-398), every element a loaded source
InvokeSetApkAssets(t) ==
  \E am \in AMs, arr \in SourceArrays :
    /\ ~aborted /\ pc[t] = "idle"
    /\ call' = [call EXCEPT ![t] = DataCall("NativeSetApkAssets", am, arr)]
    /\ pc' = [pc EXCEPT ![t] = "lock"]
    /\ UNCHANGED <<lock, theme_am, aborted, mutVars>>

SetApkAssetsLock(t) ==
  /\ pc[t] = "lock" /\ call[t].op = "NativeSetApkAssets"
  /\ LockAndStartAssetManager(t, call[t].ptr, "set_apk_assets")
  /\ UNCHANGED mutVars

\* SetApkAssets / PresetApkAssets, first half: the stack is replaced
SetApkAssetsReplaceStack(t) ==
  /\ ~aborted
  /\ pc[t] = "set_apk_assets" /\ call[t].op = "NativeSetApkAssets"
  /\ apk_assets' = [apk_assets EXCEPT ![call[t].ptr] = call[t].input]
  /\ pc' = [pc EXCEPT ![t] = "rebuild"]
  /\ UNCHANGED <<lock, call, theme_am, aborted>>
  /\ UNCHANGED <<configurations, default_locale, package_ids, committed, observed>>

\* second half: the package index is rebuilt from the new stack
SetApkAssetsRebuild(t) ==
  /\ ~aborted
  /\ pc[t] = "rebuild" /\ call[t].op = "NativeSetApkAssets"
  /\ package_ids' =
       [package_ids EXCEPT ![call[t].ptr] = PackagesOf(apk_assets[call[t].ptr])]
  /\ pc' = [pc EXCEPT ![t] = "unlock"]
  /\ UNCHANGED <<lock, call, theme_am, aborted>>
  /\ UNCHANGED <<configurations, default_locale, apk_assets, committed, observed>>

SetApkAssetsReturn(t) ==
  /\ pc[t] = "unlock" /\ call[t].op = "NativeSetApkAssets"
  /\ EndMutation(t, call[t].ptr)

\* ---- a lookup: NativeGetResourceValue (lines 732-755) reads the context
InvokeLookup(t) ==
  \E am \in AMs :
    /\ ~aborted /\ pc[t] = "idle"
    /\ call' = [call EXCEPT ![t] = DataCall("NativeGetResourceValue", am, 0)]
    /\ pc' = [pc EXCEPT ![t] = "lock"]
    /\ UNCHANGED <<lock, theme_am, aborted, mutVars>>

LookupLock(t) ==
  /\ pc[t] = "lock" /\ call[t].op = "NativeGetResourceValue"
  /\ LockAndStartAssetManager(t, call[t].ptr, "get_resource")
  /\ UNCHANGED mutVars

\* assetmanager->GetResource(...) resolves against the context as it is now
LookupGetResource(t) ==
  /\ ~aborted
  /\ pc[t] = "get_resource" /\ call[t].op = "NativeGetResourceValue"
  /\ observed' = [observed EXCEPT ![t] = ContextState(call[t].ptr)]
  /\ pc' = [pc EXCEPT ![t] = "unlock"]
  /\ UNCHANGED <<lock, call, theme_am, aborted, amVars, committed>>

LookupReturn(t) ==
  /\ pc[t] = "unlock" /\ call[t].op = "NativeGetResourceValue"
  /\ EndOperation(t, call[t].ptr, "idle")
  /\ observed' = [observed EXCEPT ![t] = NoObservation]
  /\ UNCHANGED <<amVars, committed>>

MutNext ==
  \/ \E t \in Threads : InvokeSetConfiguration(t) /\ UNCHANGED mutFrame
  \/ \E t \in Threads : SetConfigurationLock(t) /\ UNCHANGED mutFrame
  \/ \E t \in Threads : SetConfigurationSetConfigurations(t) /\ UNCHANGED mutFrame
  \/ \E t \in Threads : SetConfigurationSetDefaultLocale(t) /\ UNCHANGED mutFrame
  \/ \E t \in Threads : SetConfigurationReturn(t) /\ UNCHANGED mutFrame
  \/ \E t \in Threads : InvokeSetApkAssets(t) /\ UNCHANGED mutFrame
  \/ \E t \in Threads : SetApkAssetsLock(t) /\ UNCHANGED mutFrame
  \/ \E t \in Threads : SetApkAssetsReplaceStack(t) /\ UNCHANGED mutFrame
  \/ \E t \in Threads : SetApkAssetsRebuild(t) /\ UNCHANGED mutFrame
  \/ \E t \in Threads : SetApkAssetsReturn(t) /\ UNCHANGED mutFrame
  \/ \E t \in Threads : InvokeLookup(t) /\ UNCHANGED mutFrame
  \/ \E t \in Threads : LookupLock(t) /\ UNCHANGED mutFrame
  \/ \E t \in Threads : LookupGetResource(t) /\ UNCHANGED mutFrame
  \/ \E t \in Threads : LookupReturn(t) /\ UNCHANGED mutFrame

\* C4: a lookup running concurrently with set-sources or set-configuration
\* reads a state of the context that some completed operation left behind
\* (the state before the mutation or the state after it), never a mix of the
\* new configuration list with the old default locale or of the new stack
\* with the old package index.
C4_LookupSeesCommittedState ==
  \A t \in Threads :
    observed[t] # NoObservation => observed[t] = committed[call[t].ptr]

\* a lookup has read the context while a mutation of the same context by the
\* other thread waits for the lock, and a mutation has completed before
C4_Witness ==
  \E t, u \in Threads :
    /\ t # u
    /\ observed[t] # NoObservation
    /\ observed[t].default_locale = "en"
    /\ observed[t].apk_assets = <<"X", "Y">>
    /\ call[u].op \in {"NativeSetConfiguration", "NativeSetApkAssets"}
    /\ call[u].ptr = call[t].ptr
    /\ pc[u] = "lock"

\* C6: for every valid internal cookie (a stack index), decoding the encoded
\* cookie recovers the cookie.
C6_CookieRoundTrip ==
  (round_trip /\ cookie >= 0 /\ cookie # kInvalidCookie) => decoded = cookie

C6_Witness ==
  round_trip /\ cookie = MaxCookie /\ jcookie = MaxCookie + 1 /\ decoded = cookie

\* C7 (as claimed): an external cookie decodes to the invalid marker if and
\* only if it is 0.
C7_OnlyZeroDecodesInvalid ==
  (decoded = kInvalidCookie) <=> (jcookie = 0)

\* C7 (amended): an external cookie decodes to the invalid marker if and only
\* if it is not positive: 0 does, and so does every negative jint.
C7_NonPositiveDecodesInvalid ==
  (decoded = kInvalidCookie) <=> (jcookie <= 0)

C7_Witness ==
  ~round_trip /\ jcookie = -1 /\ decoded = kInvalidCookie

(***************************************************************************)
(* Resource tables and the Value Resolver.  GetResource and                *)
(* ResolveReference belong to the engine (AssetManager2) and follow the    *)
(* design document; NativeGetResourceValue is the binding's code.          *)
(***************************************************************************)
\* the largest resource id of the sampled resource tables
MaxRes == 3

\* the resource ids of the sampled resource tables
ResIds == 1..MaxRes

\* the maximum indirection depth of ResolveReference
kMaxIterations == 20

\* a table slot that defines nothing, and an empty std::optional
NoEntry == [type |-> "NO_ENTRY"]
NoValue == [has_value |-> FALSE]

\* the entries a sampled table can hold for an id: nothing, a number, a
\* string, the null reference (data 0) or a reference to an id of the table
RefEntries ==
  {NoEntry, [type |-> "TYPE_INT_DEC", data |-> 7],
   [type |-> "TYPE_STRING", data |-> 3]}
    \cup {[type |-> "TYPE_REFERENCE", data |-> r] : r \in 0..MaxRes}

\* a source that defines no resource
EmptyTable == [r \in ResIds |-> NoEntry]

\* the entry a table holds for a resource id
EntryOf(table, resid) ==
  IF resid \in DOMAIN table THEN table[resid] ELSE NoEntry

\* the stack positions whose table defines the id as a plain value
DefinedAt(tables, stack, resid) ==
  {i \in 1..Len(stack) :
     EntryOf(tables[stack[i]], resid).type \notin {"NO_ENTRY", "BAG"}}

\* the highest stack position of a set: the source that overrides the others
Highest(S) == CHOOSE i \in S : \A j \in S : j <= i

\* AssetManager2::GetResource with may_be_bag = false: the entry of the
\* highest-priority source that defines the id, tagged with its cookie
GetResource(tables, stack, resid) ==
  LET defined == DefinedAt(tables, stack, resid) IN
  IF defined = {} THEN NoValue
  ELSE LET i == Highest(defined)
           entry == EntryOf(tables[stack[i]], resid) IN
       [type |-> entry.type, data |-> entry.data,
        cookie |-> i - 1, resid |-> resid]

\* a value ResolveReference has to follow: a reference other than @null
IsReference(v) == v.type = "TYPE_REFERENCE" /\ v.data # 0

\* AssetManager2::ResolveReference: follows references until a terminal value
\* is reached; a missing target or more than kMaxIterations steps is not-found
RECURSIVE ResolveReferenceFrom(_, _, _, _)
ResolveReferenceFrom(tables, stack, v, n) ==
  IF ~IsReference(v) THEN v
  ELSE IF n = kMaxIterations THEN NoValue
  ELSE LET target == GetResource(tables, stack, v.data) IN
       IF target = NoValue THEN NoValue
       ELSE ResolveReferenceFrom(tables, stack, target, n + 1)

ResolveReference(tables, stack, v) == ResolveReferenceFrom(tables, stack, v, 0)

\* what a call returns when it found nothing: the invalid Java cookie, the
\* TypedValue left alone
NotFound ==
  [cookie |-> ApkAssetsCookieToJavaCookie(kInvalidCookie), written |-> FALSE]

\* (mutation) the internal cookie handed out without its encoding
CopyValue_RawCookie(v) ==
  [cookie |-> v.cookie, written |-> TRUE,
   type |-> v.type, data |-> v.data, resid |-> v.resid]

\* CopyValue: the fields written to the TypedValue and the jint returned
CopyValue(v) ==
  [cookie |-> ApkAssetsCookieToJavaCookie(v.cookie), written |-> TRUE,
   type |-> v.type, data |-> v.data, resid |-> v.resid]

\* no call of NativeGetResourceValue in flight, nothing returned
NoRefCall == [op |-> "none"]
NoResult == [returned |-> FALSE]

\* the loaded sources with the given tables, no lookup in flight
ResStart(tables) ==
  /\ arsc = tables
  /\ ref_pc = "idle"
  /\ ref_call = NoRefCall
  /\ value = NoValue
  /\ iterations = 0
  /\ typed_value = NoResult

\* NativeGetResourceValue(ptr, resid, density, typed_value, resolve_references)
InvokeGetResourceValue ==
  /\ ref_pc = "idle"
  /\ \E ptr \in AMs, resid \in 0..MaxRes, resolve \in BOOLEAN :
       ref_call' = [op |-> "NativeGetResourceValue", ptr |-> ptr,
                    resid |-> resid, resolve_references |-> resolve]
  /\ ref_pc' = "get_resource"
  /\ UNCHANGED <<arsc, value, iterations, typed_value>>

\* (mutation) copying the selected value out without resolving it
AfterGetResource_Never(resolve_references) == "copy_value"

\* (mutation) resolving whatever the caller asked for
AfterGetResource_Always(resolve_references) == "resolve_reference"

\* the step after a successful GetResource: ResolveReference only on request
AfterGetResource(resolve_references) ==
  IF resolve_references THEN "resolve_reference" ELSE "copy_value"

\* value = assetmanager->GetResource(resid, false, density)
GetResourceValueGetResource ==
  /\ ref_pc = "get_resource"
  /\ LET v == GetResource(arsc, apk_assets[ref_call.ptr], ref_call.resid) IN
       /\ value' = v
       /\ IF v = NoValue
          THEN typed_value' = NotFound /\ ref_pc' = "returned"
          ELSE /\ ref_pc' = AfterGetResource(ref_call.resolve_references)
               /\ UNCHANGED typed_value
  /\ UNCHANGED <<arsc, ref_call, iterations>>

\* (mutation) copying the value out although ResolveReference failed
GetResourceValueUnresolved_CopyValue(v) == CopyValue(v)

\* the return after a failed ResolveReference: the invalid cookie
GetResourceValueUnresolved(v) == NotFound

\* one indirection step of assetmanager->ResolveReference(value.value())
GetResourceValueResolveReference ==
  /\ ref_pc = "resolve_reference"
  /\ IF ~IsReference(value)
     THEN ref_pc' = "copy_value" /\ UNCHANGED <<value, iterations, typed_value>>
     ELSE LET target ==
                GetResource(arsc, apk_assets[ref_call.ptr], value.data) IN
          IF iterations = kMaxIterations \/ target = NoValue
          THEN /\ typed_value' = GetResourceValueUnresolved(value)
               /\ ref_pc' = "returned"
               /\ UNCHANGED <<value, iterations>>
          ELSE /\ value' = target
               /\ iterations' = iterations + 1
               /\ UNCHANGED <<ref_pc, typed_value>>
  /\ UNCHANGED <<arsc, ref_call>>

\* return CopyValue(env, *value, typed_value)
GetResourceValueCopyValue ==
  /\ ref_pc = "copy_value"
  /\ typed_value' = CopyValue(value)
  /\ ref_pc' = "returned"
  /\ UNCHANGED <<arsc, ref_call, value, iterations>>

\* the caller has taken the result
GetResourceValueReturn ==
  /\ ref_pc = "returned"
  /\ ref_pc' = "idle"
  /\ ref_call' = NoRefCall
  /\ value' = NoValue
  /\ iterations' = 0
  /\ typed_value' = NoResult
  /\ UNCHANGED arsc

RefNext ==
  \/ InvokeGetResourceValue /\ UNCHANGED refFrame
  \/ GetResourceValueGetResource /\ UNCHANGED refFrame
  \/ GetResourceValueResolveReference /\ UNCHANGED refFrame
  \/ GetResourceValueCopyValue /\ UNCHANGED refFrame
  \/ GetResourceValueReturn /\ UNCHANGED refFrame

\* the entry GetResource selects for the call in flight
Selected == GetResource(arsc, apk_assets[ref_call.ptr], ref_call.resid)

\* the value reached from a resource of a context after k references,
\* NoValue once the chain has ended
RECURSIVE Follow(_, _, _)
Follow(am, resid, k) ==
  IF k = 0 THEN GetResource(arsc, apk_assets[am], resid)
  ELSE LET v == Follow(am, resid, k - 1) IN
       IF v # NoValue /\ IsReference(v)
       THEN GetResource(arsc, apk_assets[am], v.data)
       ELSE NoValue

\* a chain that is still a reference after more steps than there are
\* resources: it runs into a cycle
ReferenceCycle(am, resid) ==
  \A k \in 0..MaxRes :
    LET v == Follow(am, resid, k) IN v # NoValue /\ IsReference(v)

\* C9 (as claimed): the value NativeGetResourceValue delivers never has type
\* 'reference', whether or not the caller asked for references to be resolved.
C9_NeverDeliversReference ==
  (ref_pc = "returned" /\ typed_value.written)
    => typed_value.type # "TYPE_REFERENCE"

\* C9 (amended): with resolve_references = false NativeGetResourceValue
\* delivers the entry GetResource selected as it is, so the delivered type is
\* 'reference' exactly when that entry is a reference.
C9_UnresolvedValueDelivered ==
  (ref_pc = "returned" /\ ~ref_call.resolve_references)
    => IF Selected = NoValue THEN typed_value = NotFound
       ELSE /\ typed_value.written
            /\ typed_value.type = Selected.type
            /\ typed_value.data = Selected.data
            /\ typed_value.resid = ref_call.resid

C9_Witness ==
  /\ ref_pc = "returned"
  /\ ~ref_call.resolve_references
  /\ typed_value.written
  /\ typed_value.type = "TYPE_REFERENCE"
  /\ typed_value.data \in ResIds
  /\ Follow(ref_call.ptr, ref_call.resid, 1) # NoValue
  /\ Follow(ref_call.ptr, ref_call.resid, 1).type = "TYPE_INT_DEC"

\* C10: reference resolution makes at most kMaxIterations indirection steps on
\* every resource table, and a chain that runs into a cycle is reported as
\* not found (the invalid cookie, nothing written).
C10_ResolveReferenceBounded ==
  /\ iterations <= kMaxIterations
  /\ (/\ ref_pc = "returned"
      /\ ref_call.resolve_references
      /\ ReferenceCycle(ref_call.ptr, ref_call.resid))
       => typed_value = NotFound

C10_Witness ==
  /\ ref_pc = "returned"
  /\ ref_call.resolve_references
  /\ ReferenceCycle(ref_call.ptr, ref_call.resid)
  /\ Selected.data # ref_call.resid
  /\ iterations = kMaxIterations
  /\ typed_value = NotFound

\* the terminal types of the sampled tables
ScalarTypes == {"TYPE_INT_DEC", "TYPE_STRING"}

\* the chain of a resource runs through k references and ends in a scalar
EndsInScalarAfter(am, resid, k) ==
  /\ \A j \in 0..(k - 1) :
       LET v == Follow(am, resid, j) IN v # NoValue /\ IsReference(v)
  /\ LET last == Follow(am, resid, k) IN
       last # NoValue /\ last.type \in ScalarTypes

\* C11: a value whose reference chain A -> B -> ... -> C ends in a scalar C
\* is delivered, with reference resolution, as C's type and data with the
\* resource id of C.
C11_ChainYieldsLastScalar ==
  (ref_pc = "returned" /\ ref_call.resolve_references)
    => \A k \in 1..MaxRes :
         EndsInScalarAfter(ref_call.ptr, ref_call.resid, k)
           => LET last == Follow(ref_call.ptr, ref_call.resid, k) IN
              /\ typed_value.written
              /\ typed_value.type = last.type
              /\ typed_value.data = last.data
              /\ typed_value.resid = last.resid
              /\ typed_value.resid # ref_call.resid

C11_Witness ==
  /\ ref_pc = "returned"
  /\ ref_call.resolve_references
  /\ EndsInScalarAfter(ref_call.ptr, ref_call.resid, 2)
  /\ iterations = 2
  /\ typed_value.written
  /\ typed_value.type = "TYPE_STRING"
  /\ typed_value.resid \notin {ref_call.resid, Selected.data}

(***************************************************************************)
(* Bags, themes and the entry points seen by one caller at a time: every   *)
(* action below is one whole call, lock taken and released inside it.      *)
(* GetBag and the Theme belong to the engine and follow the design         *)
(* document; two loaded sources carry the resources the calls look up.     *)
(***************************************************************************)
\* the attribute keys styles assign, and the styles of the loaded sources
AttrKeys == {1, 2}
StyleIds == {5, 6}

\* the base source: a number, a reference to it, and a style over both keys
BaseTable ==
  (3 :> [type |-> "TYPE_INT_DEC", data |-> 10])
    @@ (4 :> [type |-> "TYPE_REFERENCE", data |-> 3])
    @@ (5 :> [type |-> "BAG", parent |-> 0,
              entries |-> <<[key |-> 1, type |-> "TYPE_INT_DEC", data |-> 1],
                            [key |-> 2, type |-> "TYPE_REFERENCE", data |-> 3]>>])

\* the overlay source: it overrides the number, adds a style derived from
\* the base style, whose string lives in the overlay's own string pool, and a
\* bag that holds @null and a number under one key
OverlayTable ==
  (3 :> [type |-> "TYPE_INT_DEC", data |-> 20])
    @@ (6 :> [type |-> "BAG", parent |-> 5,
              entries |-> <<[key |-> 2, type |-> "TYPE_STRING", data |-> 0]>>])
    @@ (7 :> [type |-> "BAG", parent |-> 0,
              entries |-> <<[key |-> 2, type |-> "TYPE_REFERENCE", data |-> 0],
                            [key |-> 2, type |-> "TYPE_INT_DEC", data |-> 5]>>])

\* the resource table of each loaded source
LoadedTables == [src \in Sources |-> IF src = "X" THEN BaseTable ELSE OverlayTable]

\* the stack positions whose table defines the id as a bag
BagDefinedAt(tables, stack, resid) ==
  {i \in 1..Len(stack) : EntryOf(tables[stack[i]], resid).type = "BAG"}

\* the entries of a bag tagged with the cookie of the source they come from
TaggedEntries(entries, cookie_of_source) ==
  [i \in 1..Len(entries) |->
     [key |-> entries[i].key, type |-> entries[i].type,
      data |-> entries[i].data, cookie |-> cookie_of_source]]

\* the smallest key of a set
Lowest(S) == CHOOSE k \in S : \A j \in S : k <= j

\* the entries whose key is k, in their order
WithKey(entries, k) == SelectSeq(entries, LAMBDA e : e.key = k)

\* a style's own entries merged over its parent's bag, ascending by key: the
\* style's entries replace the parent's entries of the same key
RECURSIVE MergeBag(_, _, _)
MergeBag(keys, own, parent) ==
  IF keys = {} THEN <<>>
  ELSE LET k == Lowest(keys) IN
       (IF WithKey(own, k) # <<>> THEN WithKey(own, k) ELSE WithKey(parent, k))
         \o MergeBag(keys \ {k}, own, parent)

\* the keys of a sequence of bag entries
KeysOf(entries) == {entries[i].key : i \in 1..Len(entries)}

\* AssetManager2::GetBag: the bag of the highest-priority source that defines
\* the id, merged with the bag of its parent style; a parent chain that
\* returns to a style already visited is not found
RECURSIVE GetBagFrom(_, _, _, _)
GetBagFrom(tables, stack, resid, visited) ==
  LET defined == BagDefinedAt(tables, stack, resid) IN
  IF defined = {} \/ resid \in visited THEN NoValue
  ELSE LET i == Highest(defined)
           entry == EntryOf(tables[stack[i]], resid)
           own == TaggedEntries(entry.entries, i - 1) IN
       IF entry.parent = 0 THEN [has_value |-> TRUE, entries |-> own]
       ELSE LET parent ==
                  GetBagFrom(tables, stack, entry.parent, visited \cup {resid}) IN
            IF parent = NoValue THEN NoValue
            ELSE [has_value |-> TRUE,
                  entries |-> MergeBag(KeysOf(own) \cup KeysOf(parent.entries),
                                       own, parent.entries)]

GetBag(tables, stack, resid) == GetBagFrom(tables, stack, resid, {})

\* SelectedValue(bag, entry): the value of a bag entry
BagValue(e) ==
  [type |-> e.type, data |-> e.data, cookie |-> e.cookie, resid |-> 0]

\* a theme without entries, and the state before any call has returned
NoEntries == [k \in AttrKeys |-> NoValue]
NoArgs == [none |-> TRUE]
NoException == "none"
NoDelivery ==
  [op |-> "none", ptr |-> NoAM, cookies |-> {}, args |-> NoArgs,
   result |-> NoResult, thrown |-> NoException]

\* no theme holds entries, nothing has been returned
ThemeStart ==
  /\ theme_entries = [th \in Themes |-> NoEntries]
  /\ theme_log = [th \in Themes |-> <<>>]
  /\ delivered = NoDelivery

\* the entries of a bag written into a theme one after the other: an entry is
\* written when its key is not yet present or the style is forced
RECURSIVE ApplyEntries(_, _, _, _)
ApplyEntries(entries, bag, i, force) ==
  IF i > Len(bag) THEN entries
  ELSE LET e == bag[i] IN
       ApplyEntries(IF force \/ entries[e.key] = NoValue
                    THEN [entries EXCEPT ![e.key] = BagValue(e)]
                    ELSE entries,
                    bag, i + 1, force)

\* Theme::ApplyStyle against the stack of the theme's context
ApplyStyle(entries, stack, resid, force) ==
  LET bag == GetBag(arsc, stack, resid) IN
  IF bag = NoValue THEN entries ELSE ApplyEntries(entries, bag.entries, 1, force)

\* Theme::Rebase: the styles applied in order to an empty theme
RECURSIVE ReplayStyles(_, _, _, _, _)
ReplayStyles(entries, stack, style_ids, force, i) ==
  IF i > Len(style_ids) THEN entries
  ELSE ReplayStyles(ApplyStyle(entries, stack, style_ids[i], force[i]),
                    stack, style_ids, force, i + 1)

\* the most log entries the themes hold together when NativeThemeApplyStyle
\* still adds one
MaxLog == 2

\* the log entries of all themes
RECURSIVE LogTotal(_)
LogTotal(themes) ==
  IF themes = {} THEN 0
  ELSE LET th == CHOOSE x \in themes : TRUE IN
       Len(theme_log[th]) + LogTotal(themes \ {th})

\* Theme::ApplyStyle: the style joins the rebase log when its bag was found
LogStyle(log, stack, resid, force) ==
  IF GetBag(arsc, stack, resid) = NoValue THEN log
  ELSE Append(log, [resid |-> resid, force |-> force])

\* Theme::Rebase: the log of the styles applied in order to an empty theme
RECURSIVE ReplayLog(_, _, _, _, _)
ReplayLog(log, stack, style_ids, force, i) ==
  IF i > Len(style_ids) THEN log
  ELSE ReplayLog(LogStyle(log, stack, style_ids[i], force[i]),
                 stack, style_ids, force, i + 1)

\* the style arrays and the force arrays a caller passes to a rebase
StyleArrays == {<<>>, <<6>>, <<5, 6>>}
ForceArrays(n) == [1..n -> BOOLEAN]

\* what the call that returned last handed to its caller
Deliver(op, ptr, cookies) ==
  delivered' = [op |-> op, ptr |-> ptr, cookies |-> cookies, args |-> NoArgs,
                result |-> NoResult, thrown |-> NoException]

\* the Java cookie of a result, when the result carries one
CookiesOf(result) == {result.cookie}

\* a call that returns a value: its arguments, the jint it returns and the
\* TypedValue fields it wrote
DeliverResult(op, ptr, args, result) ==
  delivered' = [op |-> op, ptr |-> ptr, cookies |-> CookiesOf(result),
                args |-> args, result |-> result, thrown |-> NoException]

\* a call that returns something other than a value and may have thrown
DeliverOther(op, ptr, args, result, thrown) ==
  delivered' = [op |-> op, ptr |-> ptr, cookies |-> {}, args |-> args,
                result |-> result, thrown |-> thrown]

\* the caller issues a call once it has taken the result of its last one, as
\* long as the process has not aborted
Callable == ~aborted /\ delivered = NoDelivery

\* the caller takes what the last call returned
TakeResult ==
  /\ delivered # NoDelivery
  /\ delivered' = NoDelivery
  /\ UNCHANGED <<theme_am, aborted, apk_assets, package_ids, committed,
                 theme_entries, theme_log>>

\* NativeSetApkAssets (lines 362-398): the stack is replaced under the lock
NativeSetApkAssets ==
  \E ptr \in AMs, array \in SourceArrays :
    /\ Callable /\ Acquirable(ptr)
    /\ apk_assets' = [apk_assets EXCEPT ![ptr] = array]
    /\ package_ids' = [package_ids EXCEPT ![ptr] = PackagesOf(array)]
    /\ committed' = [committed EXCEPT ![ptr] =
                       [ContextState(ptr) EXCEPT !.apk_assets = array,
                                                 !.package_ids = PackagesOf(array)]]
    /\ Deliver("NativeSetApkAssets", ptr, {})
    /\ UNCHANGED <<theme_am, aborted, theme_entries, theme_log>>

\* NativeThemeCreate (lines 1440-1443)
NativeThemeCreate ==
  \E ptr \in AMs, th \in Themes :
    /\ Callable /\ Acquirable(ptr)
    /\ theme_am[th] = NoAM
    /\ theme_am' = [theme_am EXCEPT ![th] = ptr]
    /\ theme_entries' = [theme_entries EXCEPT ![th] = NoEntries]
    /\ theme_log' = [theme_log EXCEPT ![th] = <<>>]
    /\ Deliver("NativeThemeCreate", ptr, {})
    /\ UNCHANGED <<aborted, apk_assets, package_ids, committed>>

\* NativeThemeDestroy (lines 1445-1447)
NativeThemeDestroy ==
  \E th \in Themes :
    /\ Callable
    /\ LiveTheme(th)
    /\ theme_am' = [theme_am EXCEPT ![th] = NoAM]
    /\ theme_entries' = [theme_entries EXCEPT ![th] = NoEntries]
    /\ theme_log' = [theme_log EXCEPT ![th] = <<>>]
    /\ Deliver("NativeThemeDestroy", NoAM, {})
    /\ UNCHANGED <<aborted, apk_assets, package_ids, committed>>

\* (mutation) the style applied to a cleared table
ThemeApplyStyle_Cleared(entries, stack, resid, force) ==
  ApplyStyle(NoEntries, stack, resid, force)

\* (mutation) the style forced whatever the caller passed
ThemeApplyStyle_Forced(entries, stack, resid, force) ==
  ApplyStyle(entries, stack, resid, TRUE)

\* line 1461: theme->ApplyStyle(static_cast<uint32_t>(resid), force)
ThemeApplyStyle(entries, stack, resid, force) ==
  ApplyStyle(entries, stack, resid, force)

\* NativeThemeApplyStyle (lines 1453-1467)
NativeThemeApplyStyle ==
  \E ptr \in AMs, th \in Themes, resid \in StyleIds, force \in BOOLEAN :
    /\ Callable /\ Acquirable(ptr)
    /\ LiveTheme(th)
    /\ IF theme_am[th] # ptr
       THEN aborted' = TRUE /\ UNCHANGED <<theme_entries, theme_log>>
       ELSE /\ LogTotal(Themes) < MaxLog
            /\ theme_entries' =
                 [theme_entries EXCEPT ![th] =
                    ThemeApplyStyle(@, apk_assets[theme_am[th]], resid, force)]
            /\ theme_log' =
                 [theme_log EXCEPT ![th] =
                    LogStyle(@, apk_assets[theme_am[th]], resid, force)]
            /\ UNCHANGED aborted
    /\ DeliverOther("NativeThemeApplyStyle", ptr,
                    [theme |-> th, resid |-> resid, force |-> force],
                    NoResult, NoException)
    /\ UNCHANGED <<theme_am, apk_assets, package_ids, committed>>

\* (mutation) the force flags lost on the way to the engine
ThemeRebase_Unforced(stack, style_ids, force) ==
  ReplayStyles(NoEntries, stack, style_ids, [i \in DOMAIN force |-> FALSE], 1)

\* lines 1508-1509: theme->Rebase(&(*assetmanager), style_id_args_copy.data(),
\* force_args_copy.data(), style_count)
ThemeRebase(stack, style_ids, force) ==
  ReplayStyles(NoEntries, stack, style_ids, force, 1)

\* NativeThemeRebase (lines 1469-1510): no CHECK; the theme moves to ptr
NativeThemeRebase ==
  \E ptr \in AMs, th \in Themes, style_ids \in StyleArrays :
    \E force \in ForceArrays(Len(style_ids)) :
      /\ Callable /\ Acquirable(ptr)
      /\ LiveTheme(th)
      /\ theme_am' = [theme_am EXCEPT ![th] = ptr]
      /\ theme_entries' =
           [theme_entries EXCEPT ![th] =
              ThemeRebase(apk_assets[ptr], style_ids, force)]
      /\ theme_log' =
           [theme_log EXCEPT ![th] =
              ReplayLog(<<>>, apk_assets[ptr], style_ids, force, 1)]
      /\ DeliverOther("NativeThemeRebase", ptr,
                      [theme |-> th, style_ids |-> style_ids, force |-> force],
                      NoResult, NoException)
      /\ UNCHANGED <<aborted, apk_assets, package_ids, committed>>

\* Theme::SetTo: the content of the other theme, table and log
SetTo(dst_content, src_content) == src_content

\* NativeThemeCopy (lines 1512-1527): the source is checked against its
\* context, the destination only when the two context handles differ
\* (mutation) source and destination exchanged in the call
ThemeCopy_Reversed(dst_content, src_content) == SetTo(src_content, dst_content)

\* lines 1523 and 1525: dst_theme->SetTo(*src_theme)
ThemeCopy(dst_content, src_content) == SetTo(dst_content, src_content)

NativeThemeCopy ==
  \E dst_ptr \in AMs, dst \in Themes, src_ptr \in AMs, src \in Themes :
    /\ Callable /\ Acquirable(src_ptr) /\ Acquirable(dst_ptr)
    /\ LiveTheme(dst) /\ LiveTheme(src)
    /\ IF \/ theme_am[src] # src_ptr
          \/ (dst_ptr # src_ptr /\ theme_am[dst] # dst_ptr)
       THEN aborted' = TRUE /\ UNCHANGED <<theme_entries, theme_log>>
       ELSE /\ LET content ==
                    ThemeCopy([entries |-> theme_entries[dst], log |-> theme_log[dst]],
                              [entries |-> theme_entries[src], log |-> theme_log[src]])
               IN /\ theme_entries' = [theme_entries EXCEPT ![dst] = content.entries]
                  /\ theme_log' = [theme_log EXCEPT ![dst] = content.log]
            /\ UNCHANGED aborted
    /\ DeliverOther("NativeThemeCopy", dst_ptr,
                    [dst_theme |-> dst, src_ptr |-> src_ptr, src_theme |-> src],
                    NoResult, NoException)
    /\ UNCHANGED <<theme_am, apk_assets, package_ids, committed>>

\* the result of NativeGetResourceValue as one step (lines 732-755)
GetResourceValueResult(stack, resid, resolve_references) ==
  LET v == GetResource(arsc, stack, resid) IN
  IF v = NoValue THEN NotFound
  ELSE IF AfterGetResource(resolve_references) = "copy_value" THEN CopyValue(v)
  ELSE LET r == ResolveReference(arsc, stack, v) IN
       IF r = NoValue THEN GetResourceValueUnresolved(v) ELSE CopyValue(r)

NativeGetResourceValue ==
  \E ptr \in AMs, resid \in DOMAIN BaseTable, resolve \in BOOLEAN :
    /\ Callable /\ Acquirable(ptr)
    /\ DeliverResult("NativeGetResourceValue", ptr,
                     [resid |-> resid, resolve_references |-> resolve],
                     GetResourceValueResult(apk_assets[ptr], resid, resolve))
    /\ UNCHANGED <<theme_am, aborted, apk_assets, package_ids, committed,
                   theme_entries, theme_log>>

\* the bags a caller looks up: the styles and the bag with a repeated key
BagIds == StyleIds \cup {7}

\* (mutation) the search run from the front of the bag
FoundEntry_First(hits) == hits[1]

\* lines 766-771: find_if over reverse iterators, the last entry with the key
FoundEntry(hits) == hits[Len(hits)]

\* the result of NativeGetResourceBagValue (lines 757-784): the last entry of
\* the bag with the key, resolved
GetResourceBagValueResult(stack, resid, bag_entry_id) ==
  LET bag == GetBag(arsc, stack, resid) IN
  IF bag = NoValue THEN NotFound
  ELSE LET hits == WithKey(bag.entries, bag_entry_id) IN
       IF hits = <<>> THEN NotFound
       ELSE LET r == ResolveReference(arsc, stack, BagValue(FoundEntry(hits))) IN
            IF r = NoValue THEN NotFound ELSE CopyValue(r)

NativeGetResourceBagValue ==
  \E ptr \in AMs, resid \in BagIds, bag_entry_id \in AttrKeys :
    /\ Callable /\ Acquirable(ptr)
    /\ DeliverResult("NativeGetResourceBagValue", ptr,
                     [resid |-> resid, bag_entry_id |-> bag_entry_id],
                     GetResourceBagValueResult(apk_assets[ptr], resid,
                                               bag_entry_id))
    /\ UNCHANGED <<theme_am, aborted, apk_assets, package_ids, committed,
                   theme_entries, theme_log>>

\* the cookies NativeGetResourceArray (lines 951-1002) writes to out_data:
\* one per entry, none when the bag or a reference of it is not found
GetResourceArrayCookies(stack, resid) ==
  LET bag == GetBag(arsc, stack, resid) IN
  IF bag = NoValue THEN {}
  ELSE LET resolved ==
             [i \in 1..Len(bag.entries) |->
                ResolveReference(arsc, stack, BagValue(bag.entries[i]))] IN
       IF \E i \in 1..Len(resolved) : resolved[i] = NoValue THEN {}
       ELSE {ApkAssetsCookieToJavaCookie(resolved[i].cookie) :
               i \in 1..Len(resolved)}

\* the fixed number of slots an entry takes in a flattened array
STYLE_NUM_ENTRIES == 6

\* the lengths of the out_data arrays a caller passes
OutDataLengths == {0, 1, 11, 12}

\* line 966: the test that guards the writes to out_data
ArrayTooSmall(entry_count, out_data_length) ==
  entry_count > out_data_length * STYLE_NUM_ENTRIES

\* the entries of a bag resolved before the first one that cannot be
ResolvedBefore(stack, entries) ==
  LET failing == {i \in 1..Len(entries) :
                    ResolveReference(arsc, stack, BagValue(entries[i])) = NoValue}
  IN IF failing = {} THEN Len(entries) ELSE Lowest(failing) - 1

\* (mutation) @null left as a reference
NormalizeNull_Skipped(v) == v

\* lines 985-989: @null turns back to TYPE_NULL with DATA_NULL_UNDEFINED
NormalizeNull(v) ==
  IF v.type = "TYPE_REFERENCE" /\ v.data = 0
  THEN [v EXCEPT !.type = "TYPE_NULL", !.data = 0]
  ELSE v

\* lines 978-998: the first n entries as the cursor writes them
ArrayEntries(stack, entries, n) ==
  [i \in 1..n |->
     LET v == NormalizeNull(ResolveReference(arsc, stack, BagValue(entries[i])))
     IN [type |-> v.type, data |-> v.data,
         cookie |-> ApkAssetsCookieToJavaCookie(v.cookie), resid |-> v.resid]]

\* what NativeGetResourceArray (lines 951-1002) returns, throws and writes:
\* `slots` is the extent of out_data the cursor has written
GetResourceArrayResult(stack, resid, out_data_length) ==
  LET bag == GetBag(arsc, stack, resid) IN
  IF bag = NoValue
  THEN [found |-> FALSE, entry_count |-> 0, ret |-> -1, slots |-> 0,
        entries |-> <<>>, thrown |-> NoException]
  ELSE LET entry_count == Len(bag.entries)
           resolved == ResolvedBefore(stack, bag.entries) IN
       IF ArrayTooSmall(entry_count, out_data_length)
       THEN [found |-> TRUE, entry_count |-> entry_count, ret |-> -1,
             slots |-> 0, entries |-> <<>>,
             thrown |-> "IllegalArgumentException"]
       ELSE IF resolved < entry_count
       THEN [found |-> TRUE, entry_count |-> entry_count, ret |-> -1,
             slots |-> resolved * STYLE_NUM_ENTRIES,
             entries |-> ArrayEntries(stack, bag.entries, resolved),
             thrown |-> NoException]
       ELSE [found |-> TRUE, entry_count |-> entry_count, ret |-> entry_count,
             slots |-> entry_count * STYLE_NUM_ENTRIES,
             entries |-> ArrayEntries(stack, bag.entries, entry_count),
             thrown |-> NoException]

\* a write past the end of out_data is undefined behaviour: the process may
\* die of it, or go on with the memory behind the array overwritten
NativeGetResourceArray ==
  \E ptr \in AMs, resid \in BagIds, out_data_length \in OutDataLengths :
    /\ Callable /\ Acquirable(ptr)
    /\ LET r == GetResourceArrayResult(apk_assets[ptr], resid, out_data_length)
       IN /\ delivered' =
               [op |-> "NativeGetResourceArray", ptr |-> ptr,
                cookies |-> IF r.ret = -1 THEN {}
                            ELSE GetResourceArrayCookies(apk_assets[ptr], resid),
                args |-> [resid |-> resid, out_data_length |-> out_data_length],
                result |-> [found |-> r.found, entry_count |-> r.entry_count,
                            ret |-> r.ret, slots |-> r.slots,
                            entries |-> r.entries],
                thrown |-> r.thrown]
          /\ IF r.slots > out_data_length
             THEN aborted' \in BOOLEAN
             ELSE UNCHANGED aborted
    /\ UNCHANGED <<theme_am, apk_assets, package_ids, committed,
                   theme_entries, theme_log>>

\* the result of NativeThemeGetAttributeValue (lines 1529-1552)
ThemeGetAttributeValueResult(th, resid, resolve_references) ==
  LET v == theme_entries[th][resid] IN
  IF v = NoValue THEN NotFound
  ELSE IF ~resolve_references THEN CopyValue(v)
  ELSE LET r == ResolveReference(arsc, apk_assets[theme_am[th]], v) IN
       IF r = NoValue THEN NotFound ELSE CopyValue(r)

NativeThemeGetAttributeValue ==
  \E ptr \in AMs, th \in Themes, resid \in AttrKeys, resolve \in BOOLEAN :
    /\ Callable /\ Acquirable(ptr)
    /\ LiveTheme(th)
    /\ IF theme_am[th] # ptr
       THEN aborted' = TRUE /\ Deliver("NativeThemeGetAttributeValue", ptr, {})
       ELSE /\ DeliverResult("NativeThemeGetAttributeValue", ptr,
                             [theme |-> th, resid |-> resid,
                              resolve_references |-> resolve],
                             ThemeGetAttributeValueResult(th, resid, resolve))
            /\ UNCHANGED aborted
    /\ UNCHANGED <<theme_am, apk_assets, package_ids, committed, theme_entries,
                   theme_log>>

\* what a lookup leaves alone
lookupFrame ==
  <<theme_am, aborted, apk_assets, package_ids, committed, theme_entries,
    theme_log>>

\* the ids a caller may ask for: those of the loaded sources, 0 and an id no
\* source defines
AnyResIds == {0, 9} \cup DOMAIN BaseTable \cup DOMAIN OverlayTable

\* (mutation) the loop stopped one entry early
StyleAttributes_Short(entries) ==
  [i \in 1..(Len(entries) - 1) |-> entries[i].key]

\* lines 799-802: the key of every entry, in bag order
StyleAttributes(entries) == [i \in 1..Len(entries) |-> entries[i].key]

\* NativeGetStyleAttributes (lines 786-805): null when the bag is not found
NativeGetStyleAttributes ==
  \E ptr \in AMs, resid \in AnyResIds :
    /\ Callable /\ Acquirable(ptr)
    /\ LET bag == GetBag(arsc, apk_assets[ptr], resid) IN
       DeliverOther("NativeGetStyleAttributes", ptr, [resid |-> resid],
                    [found |-> bag # NoValue,
                     array |-> IF bag = NoValue THEN <<>>
                               ELSE StyleAttributes(bag.entries)],
                    NoException)
    /\ UNCHANGED lookupFrame

\* NativeGetResourceArraySize (lines 942-949): -1 when the bag is not found
NativeGetResourceArraySize ==
  \E ptr \in AMs, resid \in AnyResIds :
    /\ Callable /\ Acquirable(ptr)
    /\ LET bag == GetBag(arsc, apk_assets[ptr], resid) IN
       DeliverOther("NativeGetResourceArraySize", ptr, [resid |-> resid],
                    [found |-> bag # NoValue,
                     ret |-> IF bag = NoValue THEN -1 ELSE Len(bag.entries)],
                    NoException)
    /\ UNCHANGED lookupFrame

\* AssetManager2::GetParentThemeResourceId: the parent of a style, if any
GetParentThemeResourceId(stack, resid) ==
  LET defined == BagDefinedAt(arsc, stack, resid) IN
  IF defined = {} THEN NoValue
  ELSE LET entry == EntryOf(arsc[stack[Highest(defined)]], resid) IN
       IF entry.parent = 0 THEN NoValue
       ELSE [has_value |-> TRUE, resid |-> entry.parent]

\* NativeGetParentThemeIdentifier (lines 1004-1008): value_or(0)
NativeGetParentThemeIdentifier ==
  \E ptr \in AMs, resid \in AnyResIds :
    /\ Callable /\ Acquirable(ptr)
    /\ LET parent == GetParentThemeResourceId(apk_assets[ptr], resid) IN
       DeliverOther("NativeGetParentThemeIdentifier", ptr, [resid |-> resid],
                    [found |-> parent # NoValue,
                     ret |-> IF parent = NoValue THEN 0 ELSE parent.resid],
                    NoException)
    /\ UNCHANGED lookupFrame

\* the names of the resources of the loaded sources
ResourceNames ==
  (3 :> "color/accent") @@ (4 :> "color/link")
    @@ (5 :> "style/Base") @@ (6 :> "style/Derived")

\* the ids some source of a stack defines
IdsOf(stack) ==
  {r \in DOMAIN ResourceNames :
     \E i \in 1..Len(stack) : EntryOf(arsc[stack[i]], r) # NoEntry}

\* AssetManager2::GetResourceName: the name of an id a source of the stack
\* defines
GetResourceName(stack, resid) ==
  IF resid \in IdsOf(stack)
  THEN [has_value |-> TRUE, name |-> ResourceNames[resid]]
  ELSE NoValue

\* NativeGetResourceName (lines 1074-1083): nullptr when the id is unknown
NativeGetResourceName ==
  \E ptr \in AMs, resid \in AnyResIds :
    /\ Callable /\ Acquirable(ptr)
    /\ LET name == GetResourceName(apk_assets[ptr], resid) IN
       DeliverOther("NativeGetResourceName", ptr, [resid |-> resid],
                    [found |-> name # NoValue,
                     ret |-> IF name = NoValue THEN "nullptr" ELSE name.name],
                    NoException)
    /\ UNCHANGED lookupFrame

\* AssetManager2::GetResourceId: the id of a name a source of the stack
\* defines
GetResourceId(stack, name) ==
  LET ids == {r \in IdsOf(stack) : ResourceNames[r] = name} IN
  IF ids = {} THEN NoValue
  ELSE [has_value |-> TRUE, resid |-> CHOOSE r \in ids : TRUE]

\* NativeGetResourceIdentifier (lines 1022-1071): 0 when the name is unknown
NativeGetResourceIdentifier ==
  \E ptr \in AMs, name \in {"color/accent", "style/Derived", "color/unknown"} :
    /\ Callable /\ Acquirable(ptr)
    /\ LET resid == GetResourceId(apk_assets[ptr], name) IN
       DeliverOther("NativeGetResourceIdentifier", ptr, [name |-> name],
                    [found |-> resid # NoValue,
                     ret |-> IF resid = NoValue THEN 0 ELSE resid.resid],
                    NoException)
    /\ UNCHANGED lookupFrame

\* AssetManager2::GetBagResIdStack: a style's parent chain, most derived
\* first; not found when the id names no style
RECURSIVE BagResIdStackFrom(_, _, _)
BagResIdStackFrom(stack, resid, visited) ==
  IF BagDefinedAt(arsc, stack, resid) = {} \/ resid \in visited THEN <<>>
  ELSE LET parent == GetParentThemeResourceId(stack, resid) IN
       <<resid>> \o (IF parent = NoValue THEN <<>>
                     ELSE BagResIdStackFrom(stack, parent.resid,
                                            visited \cup {resid}))

GetBagResIdStack(stack, resid) ==
  IF BagDefinedAt(arsc, stack, resid) = {} THEN NoValue
  ELSE [has_value |-> TRUE, ids |-> BagResIdStackFrom(stack, resid, {})]

\* lines 1231-1236: the default style the theme names, when it names one
DefStyleResid(th, def_style_attr, def_style_resid) ==
  IF def_style_attr # 0
       /\ theme_entries[th][def_style_attr] # NoValue
       /\ theme_entries[th][def_style_attr].type = "TYPE_REFERENCE"
  THEN theme_entries[th][def_style_attr].data
  ELSE def_style_resid

\* lines 1238-1261: an IOException when either stack is not ok, else the two
\* stacks one after the other
AttributeResolutionStackResult(stack, xml_style_res, def_style_resid) ==
  LET style_stack == GetBagResIdStack(stack, xml_style_res)
      def_style_stack == GetBagResIdStack(stack, def_style_resid) IN
  IF style_stack = NoValue \/ def_style_stack = NoValue
  THEN [found |-> FALSE, array |-> <<>>, thrown |-> "IOException"]
  ELSE [found |-> TRUE, array |-> style_stack.ids \o def_style_stack.ids,
        thrown |-> NoException]

\* NativeAttributeResolutionStack (lines 1222-1262)
NativeAttributeResolutionStack ==
  \E ptr \in AMs, th \in Themes, xml_style_res \in {0, 6},
     def_style_attr \in {0, 2}, def_style_resid \in {0, 5} :
    /\ Callable /\ Acquirable(ptr)
    /\ LiveTheme(th)
    /\ IF theme_am[th] # ptr
       THEN aborted' = TRUE /\ Deliver("NativeAttributeResolutionStack", ptr, {})
       ELSE /\ LET r == AttributeResolutionStackResult(
                          apk_assets[ptr], xml_style_res,
                          DefStyleResid(th, def_style_attr, def_style_resid)) IN
               DeliverOther("NativeAttributeResolutionStack", ptr,
                            [theme |-> th, xml_style_res |-> xml_style_res,
                             def_style_attr |-> def_style_attr,
                             def_style_resid |-> def_style_resid],
                            [found |-> r.found, array |-> r.array], r.thrown)
            /\ UNCHANGED aborted
    /\ UNCHANGED <<theme_am, apk_assets, package_ids, committed, theme_entries,
                   theme_log>>

\* a source for multi-attribute resolution: a number, a default style
\* resource (4), a theme style (5) whose attribute 2 names the default
\* style (6)
StyleTable ==
  (3 :> [type |-> "TYPE_INT_DEC", data |-> 10])
    @@ (4 :> [type |-> "BAG", parent |-> 0,
              entries |-> <<[key |-> 1, type |-> "TYPE_INT_DEC", data |-> 3]>>])
    @@ (5 :> [type |-> "BAG", parent |-> 0,
              entries |-> <<[key |-> 1, type |-> "TYPE_INT_DEC", data |-> 1],
                            [key |-> 2, type |-> "TYPE_REFERENCE", data |-> 6]>>])
    @@ (6 :> [type |-> "BAG", parent |-> 0,
              entries |-> <<[key |-> 1, type |-> "TYPE_INT_DEC", data |-> 2]>>])

StyledTables == [src \in Sources |-> IF src = "X" THEN StyleTable ELSE EmptyTable]

\* the attribute arrays a caller asks for, ascending: 9 is a key that no
\* source defines
AttrArrays == {<<1>>, <<1, 9>>}

\* the explicit value a caller supplies for a slot
ExplicitValue == [type |-> "TYPE_INT_DEC", data |-> 7]

\* the explicit value arrays for n attributes: none supplied (java_values
\* null), or one slot per attribute, each with or without a value
ExplicitArrays(n) == {<<>>} \cup [1..n -> {NoValue, ExplicitValue}]

\* the XML attribute sets of a parser position: none, or attribute 1 set to
\* a reference to resource 3
XmlSets == {<<>>, <<[key |-> 1, type |-> "TYPE_REFERENCE", data |-> 3]>>}

\* a slot recorded as unset
NullSlot == [type |-> "TYPE_NULL", data |-> 0]

\* the value a sequence of entries holds for a key
EntryValue(entries, k) ==
  IF WithKey(entries, k) = <<>> THEN NoValue
  ELSE [type |-> WithKey(entries, k)[1].type, data |-> WithKey(entries, k)[1].data]

\* the value a bag holds for a key
BagEntryValue(bag, k) ==
  IF bag = NoValue THEN NoValue ELSE EntryValue(bag.entries, k)

\* the value a theme table holds for a key
ThemeValue(entries, k) ==
  IF k \in DOMAIN entries /\ entries[k] # NoValue
  THEN [type |-> entries[k].type, data |-> entries[k].data]
  ELSE NoValue

\* the explicit value of slot i
ExplicitAt(values, i) == IF i \in DOMAIN values THEN values[i] ELSE NoValue

\* the style bag the default-style attribute refers to through the theme
DefStyleAttrBag(entries, stack, def_style_attr) ==
  LET v == ThemeValue(entries, def_style_attr) IN
  IF def_style_attr # 0 /\ v # NoValue /\ v.type = "TYPE_REFERENCE"
  THEN GetBag(arsc, stack, v.data)
  ELSE NoValue

\* the sources searched for slot i, in priority order
AttrSources(entries, stack, values, xml, def_style_attr, def_style_resid, attrs, i) ==
  <<ExplicitAt(values, i),
    EntryValue(xml, attrs[i]),
    BagEntryValue(GetBag(arsc, stack, def_style_resid), attrs[i]),
    BagEntryValue(DefStyleAttrBag(entries, stack, def_style_attr), attrs[i]),
    ThemeValue(entries, attrs[i])>>

\* the first source of a sequence that holds a value
RECURSIVE FirstHit(_, _)
FirstHit(sources, j) ==
  IF j > Len(sources) THEN NoValue
  ELSE IF sources[j] # NoValue THEN sources[j]
  ELSE FirstHit(sources, j + 1)

\* the slot written for a found value: the value after reference resolution
OutSlot(stack, v) ==
  IF v = NoValue THEN NullSlot
  ELSE LET r == ResolveReference(arsc, stack, v) IN
       IF r = NoValue THEN NullSlot ELSE [type |-> r.type, data |-> r.data]

\* multi-attribute resolution: one slot per requested attribute
ResolveAttributes(entries, stack, values, xml, def_style_attr, def_style_resid, attrs) ==
  [i \in DOMAIN attrs |->
     OutSlot(stack,
             FirstHit(AttrSources(entries, stack, values, xml, def_style_attr,
                                  def_style_resid, attrs, i), 1))]

\* (mutation) the explicit values never handed to the engine
ResolveAttrs_NoValues(entries, stack, def_style_attr, def_style_resid, values, attrs) ==
  ResolveAttributes(entries, stack, <<>>, <<>>, def_style_attr,
                    def_style_resid, attrs)

\* lines 1366-1371: ResolveAttrs(theme, def_style_attr, def_style_resid,
\* values, values_len, attrs, attrs_len, out_values, out_indices)
ResolveAttrs(entries, stack, def_style_attr, def_style_resid, values, attrs) ==
  ResolveAttributes(entries, stack, values, <<>>, def_style_attr,
                    def_style_resid, attrs)

\* the out_values lengths a caller passes: room for one attribute or for two
OutValuesLengths == {STYLE_NUM_ENTRIES, 2 * STYLE_NUM_ENTRIES}

\* NativeResolveAttrs (lines 1310-1385): IndexOutOfBoundsException before
\* anything else when out_values is too small, then the lock and the CHECK
NativeResolveAttrs ==
  \E ptr \in AMs, th \in Themes, def_style_attr \in {0, 2},
     def_style_resid \in {0, 4}, attrs \in AttrArrays,
     out_values_len \in OutValuesLengths :
    \E values \in ExplicitArrays(Len(attrs)) :
      LET args == [theme |-> th, def_style_attr |-> def_style_attr,
                   def_style_resid |-> def_style_resid, values |-> values,
                   xml |-> <<>>, attrs |-> attrs] IN
      /\ Callable
      /\ LiveTheme(th)
      /\ IF out_values_len < Len(attrs) * STYLE_NUM_ENTRIES
         THEN /\ DeliverOther("NativeResolveAttrs", ptr, args,
                              [returned |-> FALSE, out_values |-> <<>>],
                              "IndexOutOfBoundsException")
              /\ UNCHANGED aborted
         ELSE /\ Acquirable(ptr)
              /\ IF theme_am[th] # ptr
                 THEN /\ aborted' = TRUE
                      /\ DeliverOther("NativeResolveAttrs", ptr, args,
                                      [returned |-> FALSE, out_values |-> <<>>],
                                      NoException)
                 ELSE /\ DeliverOther(
                           "NativeResolveAttrs", ptr, args,
                           [returned |-> TRUE,
                            out_values |->
                              ResolveAttrs(theme_entries[th], apk_assets[ptr],
                                           def_style_attr, def_style_resid,
                                           values, attrs)],
                           NoException)
                      /\ UNCHANGED aborted
      /\ UNCHANGED <<theme_am, apk_assets, package_ids, committed,
                     theme_entries, theme_log>>

\* lines 1281-1283: ApplyStyle(theme, xml_parser, def_style_attr,
\* def_style_resid, attrs, attrs_len, out_values, out_indices)
ApplyStyleAttrs(entries, stack, xml, def_style_attr, def_style_resid, attrs) ==
  ResolveAttributes(entries, stack, <<>>, xml, def_style_attr, def_style_resid,
                    attrs)

\* NativeApplyStyle (lines 1264-1286): the lock, the CHECK, then the slots
\* written through the caller's pointer
NativeApplyStyle ==
  \E ptr \in AMs, th \in Themes, def_style_attr \in {0, 2},
     def_style_resid \in {0, 4}, xml \in XmlSets, attrs \in AttrArrays :
    LET args == [theme |-> th, def_style_attr |-> def_style_attr,
                 def_style_resid |-> def_style_resid, values |-> <<>>,
                 xml |-> xml, attrs |-> attrs] IN
    /\ Callable /\ Acquirable(ptr)
    /\ LiveTheme(th)
    /\ IF theme_am[th] # ptr
       THEN /\ aborted' = TRUE
            /\ DeliverOther("NativeApplyStyle", ptr, args,
                            [returned |-> FALSE, out_values |-> <<>>],
                            NoException)
       ELSE /\ DeliverOther(
                 "NativeApplyStyle", ptr, args,
                 [returned |-> TRUE,
                  out_values |->
                    ApplyStyleAttrs(theme_entries[th], apk_assets[ptr], xml,
                                    def_style_attr, def_style_resid, attrs)],
                 NoException)
            /\ UNCHANGED aborted
    /\ UNCHANGED <<theme_am, apk_assets, package_ids, committed, theme_entries,
                   theme_log>>

\* what the calls above leave alone
themeFrame ==
  <<cookieVars, resVars, lock, pc, call, configurations, default_locale,
    observed, jniVars>>

\* the calls that change stacks and themes, and the lookups through a theme
ThemeNext ==
  \/ NativeSetApkAssets /\ UNCHANGED themeFrame
  \/ NativeThemeCreate /\ UNCHANGED themeFrame
  \/ NativeThemeDestroy /\ UNCHANGED themeFrame
  \/ NativeThemeApplyStyle /\ UNCHANGED themeFrame
  \/ NativeThemeRebase /\ UNCHANGED themeFrame
  \/ NativeThemeCopy /\ UNCHANGED themeFrame
  \/ NativeThemeGetAttributeValue /\ UNCHANGED themeFrame
  \/ NativeAttributeResolutionStack /\ UNCHANGED themeFrame
  \/ TakeResult /\ UNCHANGED themeFrame

\* the calls that build themes, the stacks left as they are
RebaseNext ==
  \/ NativeThemeCreate /\ UNCHANGED themeFrame
  \/ NativeThemeApplyStyle /\ UNCHANGED themeFrame
  \/ NativeThemeRebase /\ UNCHANGED themeFrame
  \/ TakeResult /\ UNCHANGED themeFrame

\* the calls that build themes and resolve attribute arrays through them
AttrNext ==
  \/ NativeThemeCreate /\ UNCHANGED themeFrame
  \/ NativeThemeApplyStyle /\ UNCHANGED themeFrame
  \/ NativeResolveAttrs /\ UNCHANGED themeFrame
  \/ NativeApplyStyle /\ UNCHANGED themeFrame
  \/ TakeResult /\ UNCHANGED themeFrame

\* the calls that change stacks, and the lookups by identifier or by name
LookupNext ==
  \/ NativeSetApkAssets /\ UNCHANGED themeFrame
  \/ NativeGetResourceValue /\ UNCHANGED themeFrame
  \/ NativeGetResourceBagValue /\ UNCHANGED themeFrame
  \/ NativeGetResourceArray /\ UNCHANGED themeFrame
  \/ NativeGetResourceArraySize /\ UNCHANGED themeFrame
  \/ NativeGetStyleAttributes /\ UNCHANGED themeFrame
  \/ NativeGetParentThemeIdentifier /\ UNCHANGED themeFrame
  \/ NativeGetResourceName /\ UNCHANGED themeFrame
  \/ NativeGetResourceIdentifier /\ UNCHANGED themeFrame
  \/ TakeResult /\ UNCHANGED themeFrame

\* C8: every valid (positive) cookie a call hands to its caller names a source
\* that is in the stack of the call's context when the call returns.
C8_DeliveredCookieInStack ==
  \A jc \in delivered.cookies :
    jc > 0 => JavaCookieToApkAssetsCookie(jc) < Len(apk_assets[delivered.ptr])

\* the ids both loaded sources define as plain values
DefinedInBoth ==
  {r \in DOMAIN BaseTable \cap DOMAIN OverlayTable :
     BaseTable[r].type # "BAG" /\ OverlayTable[r].type # "BAG"}

\* C12: with the stack [X, Y], the value of an id both sources define at the
\* default configuration is the one of Y, the source loaded later, and its
\* cookie refers to Y.
C12_OverlayWins ==
  (/\ delivered.op = "NativeGetResourceValue"
   /\ apk_assets[delivered.ptr] = <<"X", "Y">>
   /\ delivered.args.resid \in DefinedInBoth)
    => LET entry == OverlayTable[delivered.args.resid] IN
       (~delivered.args.resolve_references \/ entry.type # "TYPE_REFERENCE")
         => /\ delivered.result.written
            /\ delivered.result.type = entry.type
            /\ delivered.result.data = entry.data
            /\ JavaCookieToApkAssetsCookie(delivered.result.cookie) = 1
            /\ apk_assets[delivered.ptr][delivered.result.cookie] = "Y"

C12_Witness ==
  /\ delivered.op = "NativeGetResourceValue"
  /\ apk_assets[delivered.ptr] = <<"X", "Y">>
  /\ delivered.args.resid \in DefinedInBoth
  /\ delivered.result.written
  /\ delivered.result.data = OverlayTable[delivered.args.resid].data
  /\ delivered.result.data # BaseTable[delivered.args.resid].data
  /\ delivered.result.cookie = 2

\* the lookups by identifier or by name
LookupOps ==
  {"NativeGetResourceValue", "NativeGetResourceBagValue",
   "NativeThemeGetAttributeValue", "NativeGetResourceArraySize",
   "NativeGetResourceArray",
   "NativeGetParentThemeIdentifier", "NativeGetResourceName",
   "NativeGetResourceIdentifier", "NativeAttributeResolutionStack"}

\* the lookup that returned last found nothing
LookupFoundNothing ==
  /\ delivered.op \in LookupOps
  /\ delivered.result # NoResult
  /\ IF delivered.op \in {"NativeGetResourceValue", "NativeGetResourceBagValue",
                          "NativeThemeGetAttributeValue"}
     THEN ~delivered.result.written
     ELSE ~delivered.result.found

C14_ArrayWritesStayInBounds ==
  (delivered.op = "NativeGetResourceArray" /\ delivered.result.found)
    => /\ delivered.result.slots <= delivered.args.out_data_length
       /\ IF delivered.result.entry_count * STYLE_NUM_ENTRIES
               > delivered.args.out_data_length
          THEN /\ delivered.thrown = "IllegalArgumentException"
               /\ delivered.result.slots = 0
          ELSE /\ delivered.thrown = NoException
               /\ delivered.result.slots
                    = delivered.result.entry_count * STYLE_NUM_ENTRIES
               /\ delivered.result.ret = delivered.result.entry_count

\* the table a theme's rebase log yields when replayed on a stack
ReplayOfLog(th, stack) ==
  ReplayStyles(NoEntries, stack,
               [i \in 1..Len(theme_log[th]) |-> theme_log[th][i].resid],
               [i \in 1..Len(theme_log[th]) |-> theme_log[th][i].force], 1)

\* C15: the flattened table of every theme equals the replay of its rebase
\* log against the current stack of the theme's own context.
C15_TableIsReplayOfLog ==
  \A th \in Themes :
    theme_am[th] # NoAM
      => theme_entries[th] = ReplayOfLog(th, apk_assets[theme_am[th]])

\* the value a bag assigns to a key
BagAssigns(bag, k) == BagValue(WithKey(bag.entries, k)[1])

\* C16: NativeThemeApplyStyle writes the value of a bag entry into the table
\* exactly when the key is absent from the table or force is set; every other
\* key of the table keeps its value.
C16_ApplyStyleWritesAbsentOrForced ==
  [][(delivered'.op = "NativeThemeApplyStyle" /\ ~aborted')
       => LET th == delivered'.args.theme
              force == delivered'.args.force
              bag == GetBag(arsc, apk_assets[theme_am[th]],
                            delivered'.args.resid) IN
          \A k \in AttrKeys :
            theme_entries'[th][k] =
              IF /\ bag # NoValue
                 /\ k \in KeysOf(bag.entries)
                 /\ (force \/ theme_entries[th][k] = NoValue)
              THEN BagAssigns(bag, k)
              ELSE theme_entries[th][k]]_vars

C16_Witness ==
  /\ delivered.op = "NativeThemeApplyStyle"
  /\ ~aborted
  /\ ~delivered.args.force
  /\ delivered.args.resid = 6
  /\ theme_log[delivered.args.theme]
       = <<[resid |-> 5, force |-> FALSE], [resid |-> 6, force |-> FALSE]>>
  /\ theme_entries[delivered.args.theme][2].type = "TYPE_REFERENCE"

\* C17: against an unchanged context, a theme rebased with style ids and
\* force flags has the table of every theme of that context whose log holds
\* the same (style id, force) sequence, in particular one built by applying
\* [s1, s2] with [false, true] one after the other.
C17_RebaseEqualsApplying ==
  \A th1, th2 \in Themes :
    (/\ theme_am[th1] # NoAM
     /\ theme_am[th1] = theme_am[th2]
     /\ theme_log[th1] = theme_log[th2])
      => theme_entries[th1] = theme_entries[th2]

C17_Witness ==
  /\ delivered.op = "NativeThemeRebase"
  /\ delivered.args.theme = "T2"
  /\ delivered.args.style_ids = <<5, 6>>
  /\ delivered.args.force = <<FALSE, TRUE>>
  /\ theme_am["T1"] = "A" /\ theme_am["T2"] = "A"
  /\ theme_log["T1"]
       = <<[resid |-> 5, force |-> FALSE], [resid |-> 6, force |-> TRUE]>>
  /\ theme_log["T2"] = theme_log["T1"]
  /\ theme_entries["T2"] = theme_entries["T1"]
  /\ theme_entries["T1"][2].type = "TYPE_STRING"

\* C18: a completed NativeThemeCopy leaves the destination theme with the
\* source's table and log, the source as it was, and every theme attached to
\* the context it was attached to, whether or not the two themes are of one
\* context.
C18_CopyTakesSourceContent ==
  [][(delivered'.op = "NativeThemeCopy" /\ ~aborted')
       => LET dst == delivered'.args.dst_theme
              src == delivered'.args.src_theme
          IN /\ theme_entries'[dst] = theme_entries[src]
             /\ theme_log'[dst] = theme_log[src]
             /\ theme_entries'[src] = theme_entries[src]
             /\ theme_log'[src] = theme_log[src]
             /\ theme_am' = theme_am]_vars

C18_Witness ==
  /\ delivered.op = "NativeThemeCopy"
  /\ ~aborted
  /\ delivered.args.src_theme = "T1"
  /\ delivered.args.dst_theme = "T2"
  /\ theme_am["T1"] = "A" /\ theme_am["T2"] = "B"
  /\ theme_log["T1"] = <<[resid |-> 6, force |-> FALSE]>>
  /\ theme_log["T2"] = theme_log["T1"]
  /\ theme_entries["T2"] = theme_entries["T1"]
  /\ theme_entries["T1"][2].type = "TYPE_STRING"

\* the states of the theme state machine: Empty has no entry, Populated has
\* at least one
Populated(entries) == entries # NoEntries

\* C19: a theme is Empty when NativeThemeCreate hands it out, Populated once
\* NativeThemeApplyStyle has applied a style the context defines, and a
\* Populated theme is still Populated after any NativeThemeApplyStyle.
C19_PopulatedStaysPopulated ==
  [][/\ \A th \in Themes :
          (theme_am[th] = NoAM /\ theme_am'[th] # NoAM)
            => (~Populated(theme_entries'[th]) /\ theme_log'[th] = <<>>)
     /\ (delivered'.op = "NativeThemeApplyStyle" /\ ~aborted')
          => LET th == delivered'.args.theme
                 bag == GetBag(arsc, apk_assets[theme_am[th]],
                               delivered'.args.resid)
             IN /\ (bag # NoValue /\ bag.entries # <<>>)
                     => Populated(theme_entries'[th])
                /\ Populated(theme_entries[th])
                     => Populated(theme_entries'[th])]_vars

C19_Witness ==
  /\ delivered.op = "NativeThemeApplyStyle"
  /\ ~aborted
  /\ delivered.args.theme = "T1"
  /\ delivered.args.resid = 6
  /\ apk_assets[theme_am["T1"]] = <<"X">>
  /\ theme_log["T1"] = <<[resid |-> 5, force |-> FALSE]>>
  /\ Populated(theme_entries["T1"])

StyleEntry(stack, resid) ==
  EntryOf(arsc[stack[Highest(BagDefinedAt(arsc, stack, resid))]], resid)

\* a value's type and data after reference resolution
ResolvedTypeData(stack, e) ==
  LET r == ResolveReference(arsc, stack,
                            [type |-> e.type, data |-> e.data, cookie |-> 0,
                             resid |-> 0])
  IN IF r = NoValue THEN NoValue ELSE [type |-> r.type, data |-> r.data]

\* C21: for a style S with parent P whose bag is found, the keys
\* NativeGetStyleAttributes returns are the keys of S and of P's bag and no
\* other, and NativeGetResourceBagValue returns S's value for a key S
\* defines and P's value for a key only P defines.
C21_BagMergesParent ==
  LET stack == apk_assets[delivered.ptr]
      resid == delivered.args.resid
      S == StyleEntry(stack, resid)
      P == GetBag(arsc, stack, S.parent)
  IN /\ (/\ delivered.op = "NativeGetStyleAttributes"
          /\ delivered.result.found
          /\ S.parent # 0)
          => /\ P # NoValue
             /\ {delivered.result.array[i] : i \in DOMAIN delivered.result.array}
                  = KeysOf(S.entries) \cup KeysOf(P.entries)
     /\ (/\ delivered.op = "NativeGetResourceBagValue"
          /\ BagDefinedAt(arsc, stack, resid) # {}
          /\ S.parent # 0
          /\ P # NoValue)
          => LET k == delivered.args.bag_entry_id
                 own == WithKey(S.entries, k)
             IN IF own # <<>>
                THEN LET v == ResolvedTypeData(stack, own[Len(own)]) IN
                     /\ delivered.result.written = (v # NoValue)
                     /\ v # NoValue
                          => /\ delivered.result.type = v.type
                             /\ delivered.result.data = v.data
                ELSE delivered.result
                       = GetResourceBagValueResult(stack, S.parent, k)

C21_Witness ==
  /\ delivered.op = "NativeGetStyleAttributes"
  /\ delivered.args.resid = 6
  /\ delivered.result.found
  /\ delivered.result.array = <<1, 2>>

\* C22: NativeGetResourceBagValue returns the value of the last entry of the
\* resolved bag that has the requested key, and not-found when no entry has
\* it.
C22_LastEntryWithKeyWins ==
  LET stack == apk_assets[delivered.ptr]
      bag == GetBag(arsc, stack, delivered.args.resid)
  IN (delivered.op = "NativeGetResourceBagValue" /\ bag # NoValue)
       => LET with_key == {i \in 1..Len(bag.entries) :
                            bag.entries[i].key = delivered.args.bag_entry_id}
          IN IF with_key = {} THEN ~delivered.result.written
             ELSE LET v == ResolvedTypeData(stack,
                                            bag.entries[Highest(with_key)])
                  IN /\ delivered.result.written = (v # NoValue)
                     /\ v # NoValue
                          => /\ delivered.result.type = v.type
                             /\ delivered.result.data = v.data

C22_Witness ==
  /\ delivered.op = "NativeGetResourceBagValue"
  /\ delivered.args.resid = 7
  /\ delivered.args.bag_entry_id = 2
  /\ delivered.result.written
  /\ delivered.result.type = "TYPE_INT_DEC"
  /\ delivered.result.data = 5

\* C23: no entry NativeGetResourceArray writes is a reference with data 0; an
\* entry that resolves to @null is written with type NULL and data 0
\* (DATA_NULL_UNDEFINED).
C23_NullReferenceNormalized ==
  delivered.op = "NativeGetResourceArray"
    => LET stack == apk_assets[delivered.ptr]
           bag == GetBag(arsc, stack, delivered.args.resid)
           out == delivered.result.entries
       IN \A i \in DOMAIN out :
            /\ ~(out[i].type = "TYPE_REFERENCE" /\ out[i].data = 0)
            /\ ResolvedTypeData(stack, bag.entries[i])
                 = [type |-> "TYPE_REFERENCE", data |-> 0]
                 => (out[i].type = "TYPE_NULL" /\ out[i].data = 0)

C23_Witness ==
  /\ delivered.op = "NativeGetResourceArray"
  /\ ~aborted
  /\ delivered.args.resid = 7
  /\ delivered.args.out_data_length = 12
  /\ delivered.result.ret = 2
  /\ delivered.result.entries[1].type = "TYPE_NULL"
  /\ delivered.result.entries[2].type = "TYPE_INT_DEC"

(***************************************************************************)
(* Argument validation ahead of the lock: NativeOpenAsset,                 *)
(* NativeOpenNonAsset and NativeSetApkAssets, step by step.                *)
(***************************************************************************)
\* the access modes of an Asset
AccessModes ==
  {"ACCESS_UNKNOWN", "ACCESS_RANDOM", "ACCESS_STREAMING", "ACCESS_BUFFER"}

\* the asset paths a caller passes: a null jstring, the path of an asset of
\* the loaded sources, a path no source holds
AssetPaths == {"null", "found", "missing"}

\* (mutation) every jint taken for an access mode
ValidAccessMode_Any(access_mode) == TRUE

\* lines 557-558 and 604-605
ValidAccessMode(access_mode) == access_mode \in AccessModes

\* the engine was not called
NoEngineCall == [name |-> "none"]

\* what the call of thread t hands back
Returned(t, ret, thrown, engine) ==
  outcome' = [outcome EXCEPT ![t] =
                [op |-> call[t].op, ptr |-> call[t].ptr, input |-> call[t].input,
                 ret |-> ret, thrown |-> thrown, engine |-> engine]]

\* a return ahead of LockAndStartAssetManager
ReturnUnlocked(t, ret, thrown) ==
  /\ Returned(t, ret, thrown, NoEngineCall)
  /\ pc' = [pc EXCEPT ![t] = "idle"]
  /\ call' = [call EXCEPT ![t] = NoCall]
  /\ UNCHANGED <<lock, theme_am, aborted>>

OpenOps == {"NativeOpenAsset", "NativeOpenNonAsset"}

\* the jints a caller passes for the mode: two modes and a jint that is none
SampledModes == {"ACCESS_UNKNOWN", "ACCESS_BUFFER", "other"}

\* ---- NativeOpenAsset (lines 547-571), NativeOpenNonAsset (lines 592-624)
InvokeOpen(t) ==
  \E op \in OpenOps, am \in AMs, path \in AssetPaths,
     mode \in SampledModes, jc \in {0, 1} :
    /\ ~aborted /\ pc[t] = "idle"
    /\ op = "NativeOpenAsset" => jc = 0
    /\ call' = [call EXCEPT ![t] =
         DataCall(op, am, [asset_path |-> path, access_mode |-> mode,
                           jcookie |-> jc])]
    /\ pc' = [pc EXCEPT ![t] = "arguments"]
    /\ outcome' = [outcome EXCEPT ![t] = NoOutcome]
    /\ UNCHANGED <<lock, theme_am, aborted, mutVars, critical>>

\* lines 549-561 and 596-608: the null path first, then the access mode
OpenArguments(t) ==
  /\ ~aborted
  /\ pc[t] = "arguments" /\ call[t].op \in OpenOps
  /\ IF call[t].input.asset_path = "null"
     THEN ReturnUnlocked(t, 0, "NullPointerException")
     ELSE IF ~ValidAccessMode(call[t].input.access_mode)
     THEN ReturnUnlocked(t, 0, "IllegalArgumentException")
     ELSE /\ pc' = [pc EXCEPT ![t] = "lock"]
          /\ UNCHANGED <<lock, call, theme_am, aborted, outcome>>
  /\ UNCHANGED <<mutVars, critical>>

OpenLock(t) ==
  /\ pc[t] = "lock" /\ call[t].op \in OpenOps
  /\ LockAndStartAssetManager(t, call[t].ptr, "open")
  /\ UNCHANGED <<mutVars, jniVars>>

\* AssetManager2::Open / OpenNonAsset: the asset, when a source of the stack
\* (the source of the cookie, when one is given) holds the path
OpenFinds(stack, path, apk_cookie) ==
  /\ path = "found"
  /\ IF apk_cookie = kInvalidCookie THEN stack # <<>>
     ELSE apk_cookie < Len(stack)

\* lines 563-570 and 610-623: the engine call, FileNotFoundException when it
\* finds nothing, the lock released on the way out
OpenOpen(t) ==
  /\ pc[t] = "open" /\ call[t].op \in OpenOps
  /\ LET apk_cookie == IF call[t].op = "NativeOpenNonAsset"
                       THEN JavaCookieToApkAssetsCookie(call[t].input.jcookie)
                       ELSE kInvalidCookie
         found == OpenFinds(apk_assets[call[t].ptr], call[t].input.asset_path,
                            apk_cookie)
         engine == [name |-> IF call[t].op = "NativeOpenAsset"
                             THEN "Open" ELSE "OpenNonAsset"]
     IN Returned(t, IF found THEN 1 ELSE 0,
                 IF found THEN NoException ELSE "FileNotFoundException", engine)
  /\ EndOperation(t, call[t].ptr, "idle")
  /\ UNCHANGED <<mutVars, critical>>

\* the arrays of ApkAssets objects a caller passes: loaded sources, a null
\* element, a closed source (native pointer 0)
ApkAssetsArrays ==
  {<<"X", "Y">>, <<"Y">>, <<"X", "null">>, <<"closed", "Y">>, <<"closed", "null">>}

\* lines 370-390: the first index whose element is null or closed, 0 if none
FirstInvalid(arr) ==
  LET invalid == {i \in 1..Len(arr) : arr[i] \in {"null", "closed"}} IN
  IF invalid = {} THEN 0 ELSE Lowest(invalid)

\* (mutation) the two paths exchanged
EngineSetCall_Swapped(preset, invalidate_caches) ==
  IF ~preset THEN [name |-> "PresetApkAssets"]
  ELSE [name |-> "SetApkAssets", invalidate_caches |-> invalidate_caches]

\* lines 393-397: the preset path, or the normal one with the caller's flag
EngineSetCall(preset, invalidate_caches) ==
  IF preset THEN [name |-> "PresetApkAssets"]
  ELSE [name |-> "SetApkAssets", invalidate_caches |-> invalidate_caches]

\* ---- NativeSetApkAssets (lines 362-398) with its validation loop
InvokeSetSources(t) ==
  \E am \in AMs, arr \in ApkAssetsArrays, inv \in BOOLEAN, pre \in BOOLEAN :
    /\ ~aborted /\ pc[t] = "idle"
    /\ call' = [call EXCEPT ![t] =
         DataCall("NativeSetApkAssets", am,
                  [apk_assets_array |-> arr, invalidate_caches |-> inv,
                   preset |-> pre])]
    /\ pc' = [pc EXCEPT ![t] = "collect"]
    /\ outcome' = [outcome EXCEPT ![t] = NoOutcome]
    /\ UNCHANGED <<lock, theme_am, aborted, mutVars, critical>>

\* lines 370-390: NullPointerException at a null element,
\* IllegalArgumentException at a closed one, whichever comes first
SetSourcesCollect(t) ==
  /\ ~aborted
  /\ pc[t] = "collect" /\ call[t].op = "NativeSetApkAssets"
  /\ LET arr == call[t].input.apk_assets_array
         i == FirstInvalid(arr)
     IN IF i = 0
        THEN /\ pc' = [pc EXCEPT ![t] = "lock_sources"]
             /\ UNCHANGED <<lock, call, theme_am, aborted, outcome>>
        ELSE ReturnUnlocked(t, 0, IF arr[i] = "null"
                                  THEN "NullPointerException"
                                  ELSE "IllegalArgumentException")
  /\ UNCHANGED <<mutVars, critical>>

SetSourcesLock(t) ==
  /\ pc[t] = "lock_sources" /\ call[t].op = "NativeSetApkAssets"
  /\ LockAndStartAssetManager(t, call[t].ptr, "set_sources")
  /\ UNCHANGED <<mutVars, jniVars>>

\* PresetApkAssets / SetApkAssets: the stack replaced, the package index
\* rebuilt from it
SetSourcesSet(t) ==
  /\ ~aborted
  /\ pc[t] = "set_sources" /\ call[t].op = "NativeSetApkAssets"
  /\ apk_assets' =
       [apk_assets EXCEPT ![call[t].ptr] = call[t].input.apk_assets_array]
  /\ package_ids' =
       [package_ids EXCEPT ![call[t].ptr] =
          PackagesOf(call[t].input.apk_assets_array)]
  /\ pc' = [pc EXCEPT ![t] = "unlock_sources"]
  /\ UNCHANGED <<lock, call, theme_am, aborted>>
  /\ UNCHANGED <<configurations, default_locale, committed, observed, jniVars>>

SetSourcesReturn(t) ==
  /\ pc[t] = "unlock_sources" /\ call[t].op = "NativeSetApkAssets"
  /\ Returned(t, 0, NoException,
              EngineSetCall(call[t].input.preset,
                            call[t].input.invalidate_caches))
  /\ EndMutation(t, call[t].ptr)
  /\ UNCHANGED critical

\* concurrent callers of the open calls
OpenNext ==
  \/ \E t \in Threads : InvokeOpen(t) /\ UNCHANGED jniFrame
  \/ \E t \in Threads : OpenArguments(t) /\ UNCHANGED jniFrame
  \/ \E t \in Threads : OpenLock(t) /\ UNCHANGED jniFrame
  \/ \E t \in Threads : OpenOpen(t) /\ UNCHANGED jniFrame

\* concurrent callers of set-sources
SetSourcesNext ==
  \/ \E t \in Threads : InvokeSetSources(t) /\ UNCHANGED jniFrame
  \/ \E t \in Threads : SetSourcesCollect(t) /\ UNCHANGED jniFrame
  \/ \E t \in Threads : SetSourcesLock(t) /\ UNCHANGED jniFrame
  \/ \E t \in Threads : SetSourcesSet(t) /\ UNCHANGED jniFrame
  \/ \E t \in Threads : SetSourcesReturn(t) /\ UNCHANGED jniFrame

\* a call of an open entry point made with a jint that is no access mode
BadModeCall(c) ==
  c.op \in OpenOps /\ ~(c.input.access_mode \in AccessModes)

\* C24 (as claimed): an open call with an access mode outside the four modes
\* signals IllegalArgumentException and returns 0, without taking the
\* context lock and without calling the engine.
C24_BadModeIsIllegalArgument ==
  \A t \in Threads :
    /\ BadModeCall(call[t]) => pc[t] = "arguments"
    /\ BadModeCall(outcome[t])
         => /\ outcome[t].thrown = "IllegalArgumentException"
            /\ outcome[t].ret = 0
            /\ outcome[t].engine = NoEngineCall

\* C24 (amended): an open call with a non-null path and an access mode
\* outside the four modes signals IllegalArgumentException; with a null path
\* it signals NullPointerException, the path being examined first.  Either
\* way it returns 0 without taking the context lock and without calling the
\* engine.
C24_BadModeRejectedBeforeLock ==
  \A t \in Threads :
    /\ BadModeCall(call[t]) => (pc[t] = "arguments" /\ lock[call[t].ptr] # t)
    /\ BadModeCall(outcome[t])
         => /\ outcome[t].thrown
                 = (IF outcome[t].input.asset_path = "null"
                    THEN "NullPointerException"
                    ELSE "IllegalArgumentException")
            /\ outcome[t].ret = 0
            /\ outcome[t].engine = NoEngineCall

C24_Witness ==
  \E t, u \in Threads :
    /\ outcome[t].op = "NativeOpenNonAsset"
    /\ outcome[t].input.access_mode = "other"
    /\ outcome[t].input.asset_path = "found"
    /\ outcome[t].thrown = "IllegalArgumentException"
    /\ lock[outcome[t].ptr] = u
    /\ u # t

\* a call of set-sources
SetSourcesCall(c) == c.op = "NativeSetApkAssets"

\* C29: NativeSetApkAssets given an array with a null element or a closed
\* source raises an error and returns without taking the context lock and
\* without changing the stack; given valid elements only it replaces the
\* stack by exactly the input sequence, through the preset path when preset
\* is set and through the normal path with the caller's invalidate flag
\* otherwise.
C29_SetSourcesValidatesThenReplaces ==
  \A t \in Threads :
    /\ (SetSourcesCall(call[t])
          /\ \E i \in DOMAIN call[t].input.apk_assets_array :
                call[t].input.apk_assets_array[i] \in {"null", "closed"})
         => (pc[t] = "collect" /\ lock[call[t].ptr] # t)
    /\ (SetSourcesCall(call[t]) /\ pc[t] = "unlock_sources")
         => apk_assets[call[t].ptr] = call[t].input.apk_assets_array
    /\ SetSourcesCall(outcome[t])
         => IF \E i \in DOMAIN outcome[t].input.apk_assets_array :
                  outcome[t].input.apk_assets_array[i] \in {"null", "closed"}
            THEN /\ outcome[t].thrown \in {"NullPointerException",
                                           "IllegalArgumentException"}
                 /\ outcome[t].engine = NoEngineCall
            ELSE /\ outcome[t].thrown = NoException
                 /\ outcome[t].input.preset
                      => outcome[t].engine = [name |-> "PresetApkAssets"]
                 /\ ~outcome[t].input.preset
                      => outcome[t].engine =
                           [name |-> "SetApkAssets",
                            invalidate_caches |->
                              outcome[t].input.invalidate_caches]

C29_Witness ==
  \E t, u \in Threads :
    /\ SetSourcesCall(outcome[t])
    /\ outcome[t].input.apk_assets_array = <<"closed", "null">>
    /\ outcome[t].thrown = "IllegalArgumentException"
    /\ SetSourcesCall(outcome[u])
    /\ outcome[u].input.preset
    /\ outcome[u].engine = [name |-> "PresetApkAssets"]
    /\ apk_assets[outcome[u].ptr] = <<"Y">>
    /\ outcome[t].ptr = outcome[u].ptr

(***************************************************************************)
(* Critical arrays: GetPrimitiveArrayCritical and                          *)
(* ReleasePrimitiveArrayCritical in NativeThemeRebase, NativeResolveAttrs, *)
(* NativeRetrieveAttributes and NativeApplyStyle, step by step.            *)
(***************************************************************************)
\* a call of an entry point that takes a context, maybe a theme, and arrays
ArrayCall(op, ptr, theme, input) ==
  [op |-> op, ptr |-> ptr, theme |-> theme,
   src_ptr |-> NoAM, src_theme |-> NoTheme, input |-> input]

\* GetPrimitiveArrayCritical(a) that succeeds
AcquireIn(c, a) == [c EXCEPT !.held = @ \cup {a}]

\* ReleasePrimitiveArrayCritical(a): the array leaves the critical section;
\* a release of an array that is not held is recorded as stray
ReleaseIn(c, a) ==
  IF a \in c.held THEN [c EXCEPT !.held = @ \ {a}]
  ELSE [c EXCEPT !.stray = @ \cup {a}]

RECURSIVE ReleaseAll(_, _)
\* the releases of a sequence of arrays, in order
ReleaseAll(c, arrays) ==
  IF arrays = <<>> THEN c
  ELSE ReleaseAll(ReleaseIn(c, Head(arrays)), Tail(arrays))

\* one step of a call that keeps lock and call and moves the critical arrays
CriticalStep(t, next, c) ==
  /\ ~aborted
  /\ pc' = [pc EXCEPT ![t] = next]
  /\ critical' = [critical EXCEPT ![t] = c]
  /\ UNCHANGED <<lock, call, theme_am, aborted, outcome, mutVars>>

\* a return ahead of the lock
CriticalReturn(t, c) ==
  /\ ~aborted
  /\ pc' = [pc EXCEPT ![t] = "idle"]
  /\ call' = [call EXCEPT ![t] = NoCall]
  /\ critical' = [critical EXCEPT ![t] = c]
  /\ UNCHANGED <<lock, theme_am, aborted, outcome, mutVars>>

\* a return under the lock: the ScopedLock goes out of scope
CriticalUnlock(t, c) ==
  /\ EndOperation(t, call[t].ptr, "idle")
  /\ critical' = [critical EXCEPT ![t] = c]
  /\ UNCHANGED <<outcome, mutVars>>

\* ---- NativeThemeRebase (lines 1469-1510) with its two arrays
InvokeRebaseArrays(t) ==
  \E am \in AMs, th \in Themes, ids \in BOOLEAN, frc \in BOOLEAN :
    /\ ~aborted /\ pc[t] = "idle" /\ LiveTheme(th)
    /\ call' = [call EXCEPT ![t] =
         ArrayCall("NativeThemeRebase", am, th,
                   [style_ids |-> ids, force |-> frc])]
    /\ pc' = [pc EXCEPT ![t] = "lock"]
    /\ critical' = [critical EXCEPT ![t] = NoCritical]
    /\ UNCHANGED <<lock, theme_am, aborted, outcome, mutVars>>

\* line 1474
RebaseArraysLock(t) ==
  /\ pc[t] = "lock" /\ call[t].op = "NativeThemeRebase"
  /\ LockAndStartAssetManager(t, call[t].ptr, "style_ids")
  /\ UNCHANGED <<mutVars, jniVars>>

\* lines 1477-1485: style_ids acquired when it is not null; return when the
\* VM hands back no pointer
RebaseStyleIds(t) ==
  /\ pc[t] = "style_ids" /\ call[t].op = "NativeThemeRebase"
  /\ IF call[t].input.style_ids
     THEN \E ok \in BOOLEAN :
            IF ok
            THEN CriticalStep(t, "copy_style_ids",
                              AcquireIn(critical[t], "style_ids"))
            ELSE CriticalUnlock(t, critical[t])
     ELSE CriticalStep(t, "force", critical[t])

\* lines 1486-1489: the ids copied, style_ids released
RebaseCopyStyleIds(t) ==
  /\ pc[t] = "copy_style_ids" /\ call[t].op = "NativeThemeRebase"
  /\ CriticalStep(t, "force", ReleaseIn(critical[t], "style_ids"))

\* lines 1492-1501: force acquired when it is not null; when the VM hands
\* back no pointer, style_ids is released (line 1496) and the call returns
RebaseForce(t) ==
  /\ pc[t] = "force" /\ call[t].op = "NativeThemeRebase"
  /\ IF call[t].input.force
     THEN \E ok \in BOOLEAN :
            IF ok
            THEN CriticalStep(t, "copy_force", AcquireIn(critical[t], "force"))
            ELSE CriticalUnlock(t, ReleaseIn(critical[t], "style_ids"))
     ELSE CriticalStep(t, "rebase", critical[t])

\* lines 1502-1505: the flags copied, force released
RebaseCopyForce(t) ==
  /\ pc[t] = "copy_force" /\ call[t].op = "NativeThemeRebase"
  /\ CriticalStep(t, "rebase", ReleaseIn(critical[t], "force"))

\* lines 1507-1509: theme->Rebase: the theme now belongs to ptr
RebaseArraysRebase(t) ==
  /\ ~aborted
  /\ pc[t] = "rebase" /\ call[t].op = "NativeThemeRebase"
  /\ theme_am' = [theme_am EXCEPT ![call[t].theme] = call[t].ptr]
  /\ pc' = [pc EXCEPT ![t] = "unlock"]
  /\ UNCHANGED <<lock, call, aborted, mutVars, jniVars>>

RebaseArraysReturn(t) ==
  /\ pc[t] = "unlock" /\ call[t].op = "NativeThemeRebase"
  /\ CriticalUnlock(t, critical[t])

\* ---- NativeResolveAttrs (lines 1310-1385) and NativeRetrieveAttributes
\* (lines 1387-1438): the arrays first, the lock after them
ArraysFirstOps == {"NativeResolveAttrs", "NativeRetrieveAttributes"}

\* the out_java_indices a caller passes: null, no longer than attrs, longer
OutIndicesArgs == {"null", "short", "long"}

InvokeArraysFirst(t) ==
  \E op \in ArraysFirstOps, am \in AMs, th \in Themes, vals \in BOOLEAN,
     ind \in OutIndicesArgs, small \in BOOLEAN :
    /\ ~aborted /\ pc[t] = "idle" /\ LiveTheme(th)
    /\ op = "NativeRetrieveAttributes" => (th = "T1" /\ ~vals)
    /\ call' = [call EXCEPT ![t] =
         ArrayCall(op, am, IF op = "NativeResolveAttrs" THEN th ELSE NoTheme,
                   [java_values |-> vals, out_java_indices |-> ind,
                    out_values_too_small |-> small])]
    /\ pc' = [pc EXCEPT ![t] = "length"]
    /\ critical' = [critical EXCEPT ![t] = NoCritical]
    /\ UNCHANGED <<lock, theme_am, aborted, outcome, mutVars>>

\* lines 1316-1319 and 1392-1395: IndexOutOfBoundsException, JNI_FALSE
ArraysFirstLength(t) ==
  /\ pc[t] = "length" /\ call[t].op \in ArraysFirstOps
  /\ IF call[t].input.out_values_too_small
     THEN CriticalReturn(t, critical[t])
     ELSE CriticalStep(t, "attrs", critical[t])

\* lines 1321-1324 and 1397-1400
ArraysFirstAttrs(t) ==
  /\ pc[t] = "attrs" /\ call[t].op \in ArraysFirstOps
  /\ \E ok \in BOOLEAN :
       IF ok THEN CriticalStep(t, "values", AcquireIn(critical[t], "java_attrs"))
       ELSE CriticalReturn(t, critical[t])

\* lines 1326-1335: java_values, of NativeResolveAttrs, when it is not null
ArraysFirstValues(t) ==
  /\ pc[t] = "values" /\ call[t].op \in ArraysFirstOps
  /\ IF call[t].op = "NativeResolveAttrs" /\ call[t].input.java_values
     THEN \E ok \in BOOLEAN :
            IF ok
            THEN CriticalStep(t, "out_values",
                              AcquireIn(critical[t], "java_values"))
            ELSE CriticalReturn(t, ReleaseIn(critical[t], "java_attrs"))
     ELSE CriticalStep(t, "out_values", critical[t])

\* the arrays the handlers release after java_attrs: java_values when the
\* call holds a pointer to it (values != nullptr)
ValuesIfAcquired(c) ==
  IF c.op = "NativeResolveAttrs" /\ c.input.java_values
  THEN <<"java_values">> ELSE <<>>

\* lines 1337-1345 and 1402-1407
ArraysFirstOutValues(t) ==
  /\ pc[t] = "out_values" /\ call[t].op \in ArraysFirstOps
  /\ \E ok \in BOOLEAN :
       IF ok
       THEN CriticalStep(t, "out_indices",
                         AcquireIn(critical[t], "out_java_values"))
       ELSE CriticalReturn(t,
              ReleaseAll(critical[t],
                         <<"java_attrs">> \o ValuesIfAcquired(call[t])))

\* lines 1347-1362 and 1409-1421: out_java_indices when it is not null and
\* longer than attrs
ArraysFirstOutIndices(t) ==
  /\ pc[t] = "out_indices" /\ call[t].op \in ArraysFirstOps
  /\ IF call[t].input.out_java_indices = "long"
     THEN \E ok \in BOOLEAN :
            IF ok
            THEN CriticalStep(t, "lock",
                              AcquireIn(critical[t], "out_java_indices"))
            ELSE CriticalReturn(t,
                   ReleaseAll(critical[t],
                              <<"java_attrs">> \o ValuesIfAcquired(call[t])
                                \o <<"out_java_values">>))
     ELSE CriticalStep(t, "lock", critical[t])

\* lines 1364 and 1423
ArraysFirstLock(t) ==
  /\ pc[t] = "lock" /\ call[t].op \in ArraysFirstOps
  /\ LockAndStartAssetManager(t, call[t].ptr,
       IF call[t].op = "NativeResolveAttrs" THEN "check" ELSE "resolve")
  /\ UNCHANGED <<mutVars, jniVars>>

\* line 1366
ArraysFirstCheck(t) ==
  /\ pc[t] = "check" /\ call[t].op = "NativeResolveAttrs"
  /\ CheckThemeAssetManager(t, call[t].theme, call[t].ptr, "resolve")
  /\ UNCHANGED <<mutVars, jniVars>>

\* lines 1368-1373 and 1426-1429: ResolveAttrs / RetrieveAttributes
ArraysFirstResolve(t) ==
  /\ pc[t] = "resolve" /\ call[t].op \in ArraysFirstOps
  /\ CriticalStep(t, "release", critical[t])

\* lines 1374-1383 and 1431-1436: out_indices when a pointer to it is held,
\* out_values, values when a pointer to it is held, attrs
ArraysFirstRelease(t) ==
  /\ pc[t] = "release" /\ call[t].op \in ArraysFirstOps
  /\ CriticalStep(t, "unlock",
       ReleaseAll(critical[t],
                  (IF call[t].input.out_java_indices = "long"
                   THEN <<"out_java_indices">> ELSE <<>>)
                    \o <<"out_java_values">> \o ValuesIfAcquired(call[t])
                    \o <<"java_attrs">>))

ArraysFirstReturn(t) ==
  /\ pc[t] = "unlock" /\ call[t].op \in ArraysFirstOps
  /\ CriticalUnlock(t, critical[t])

\* ---- NativeApplyStyle (lines 1264-1286): the lock, the CHECK, then attrs
InvokeApplyStyleArrays(t) ==
  \E am \in AMs, th \in Themes :
    /\ ~aborted /\ pc[t] = "idle" /\ LiveTheme(th)
    /\ call' = [call EXCEPT ![t] =
                  ArrayCall("NativeApplyStyle", am, th, [java_attrs |-> TRUE])]
    /\ pc' = [pc EXCEPT ![t] = "lock"]
    /\ critical' = [critical EXCEPT ![t] = NoCritical]
    /\ UNCHANGED <<lock, theme_am, aborted, outcome, mutVars>>

\* line 1267
ApplyStyleArraysLock(t) ==
  /\ pc[t] = "lock" /\ call[t].op = "NativeApplyStyle"
  /\ LockAndStartAssetManager(t, call[t].ptr, "check")
  /\ UNCHANGED <<mutVars, jniVars>>

\* line 1269
ApplyStyleArraysCheck(t) ==
  /\ pc[t] = "check" /\ call[t].op = "NativeApplyStyle"
  /\ CheckThemeAssetManager(t, call[t].theme, call[t].ptr, "attrs")
  /\ UNCHANGED <<mutVars, jniVars>>

\* lines 1277-1280
ApplyStyleArraysAttrs(t) ==
  /\ pc[t] = "attrs" /\ call[t].op = "NativeApplyStyle"
  /\ \E ok \in BOOLEAN :
       IF ok THEN CriticalStep(t, "apply", AcquireIn(critical[t], "java_attrs"))
       ELSE CriticalUnlock(t, critical[t])

\* lines 1282-1284
ApplyStyleArraysApply(t) ==
  /\ pc[t] = "apply" /\ call[t].op = "NativeApplyStyle"
  /\ CriticalStep(t, "release", critical[t])

\* line 1285 and the end of the scope
ApplyStyleArraysRelease(t) ==
  /\ pc[t] = "release" /\ call[t].op = "NativeApplyStyle"
  /\ CriticalUnlock(t, ReleaseIn(critical[t], "java_attrs"))

\* concurrent callers of the four entry points
CriticalNext ==
  \/ \E t \in Threads : InvokeRebaseArrays(t) /\ UNCHANGED jniFrame
  \/ \E t \in Threads : RebaseArraysLock(t) /\ UNCHANGED jniFrame
  \/ \E t \in Threads : RebaseStyleIds(t) /\ UNCHANGED jniFrame
  \/ \E t \in Threads : RebaseCopyStyleIds(t) /\ UNCHANGED jniFrame
  \/ \E t \in Threads : RebaseForce(t) /\ UNCHANGED jniFrame
  \/ \E t \in Threads : RebaseCopyForce(t) /\ UNCHANGED jniFrame
  \/ \E t \in Threads : RebaseArraysRebase(t) /\ UNCHANGED jniFrame
  \/ \E t \in Threads : RebaseArraysReturn(t) /\ UNCHANGED jniFrame
  \/ \E t \in Threads : InvokeArraysFirst(t) /\ UNCHANGED jniFrame
  \/ \E t \in Threads : ArraysFirstLength(t) /\ UNCHANGED jniFrame
  \/ \E t \in Threads : ArraysFirstAttrs(t) /\ UNCHANGED jniFrame
  \/ \E t \in Threads : ArraysFirstValues(t) /\ UNCHANGED jniFrame
  \/ \E t \in Threads : ArraysFirstOutValues(t) /\ UNCHANGED jniFrame
  \/ \E t \in Threads : ArraysFirstOutIndices(t) /\ UNCHANGED jniFrame
  \/ \E t \in Threads : ArraysFirstLock(t) /\ UNCHANGED jniFrame
  \/ \E t \in Threads : ArraysFirstCheck(t) /\ UNCHANGED jniFrame
  \/ \E t \in Threads : ArraysFirstResolve(t) /\ UNCHANGED jniFrame
  \/ \E t \in Threads : ArraysFirstRelease(t) /\ UNCHANGED jniFrame
  \/ \E t \in Threads : ArraysFirstReturn(t) /\ UNCHANGED jniFrame
  \/ \E t \in Threads : InvokeApplyStyleArrays(t) /\ UNCHANGED jniFrame
  \/ \E t \in Threads : ApplyStyleArraysLock(t) /\ UNCHANGED jniFrame
  \/ \E t \in Threads : ApplyStyleArraysCheck(t) /\ UNCHANGED jniFrame
  \/ \E t \in Threads : ApplyStyleArraysAttrs(t) /\ UNCHANGED jniFrame
  \/ \E t \in Threads : ApplyStyleArraysApply(t) /\ UNCHANGED jniFrame
  \/ \E t \in Threads : ApplyStyleArraysRelease(t) /\ UNCHANGED jniFrame

\* C27 (as claimed): on every path through NativeThemeRebase,
\* NativeResolveAttrs, NativeRetrieveAttributes and NativeApplyStyle each
\* critical array acquired is released exactly once, and no array is
\* released that is not held: no release is stray, and a thread that runs no
\* call holds no array.
C27_CriticalArraysBalanced ==
  aborted \/
  \A t \in Threads :
    /\ critical[t].stray = {}
    /\ pc[t] = "idle" => critical[t].held = {}

\* C28 (as claimed): no thread waits for a context lock inside a critical
\* section, every entry point taking the lock before its first critical
\* array: a thread that holds a critical array holds the lock of its call.
C28_LockBeforeCriticalArrays ==
  \A t \in Threads :
    critical[t].held # {} => lock[call[t].ptr] = t

(***************************************************************************)
(* NativeAssetRead: the bounds of a read into a caller's byte array.       *)
(***************************************************************************)
\* the longest small buffer sampled
MaxBuffer == 3

\* the jints a caller passes for offset and len, and the lengths of its
\* buffer: small ones and those next to the ends of the 32-bit range
Offsets == {INT32_MIN, -1} \cup (0..MaxBuffer) \cup {INT32_MAX - 1, INT32_MAX}
BufferLens == (0..MaxBuffer) \cup {INT32_MAX}

\* a - b in 32-bit two's complement arithmetic
Int32Sub(a, b) ==
  IF b > 0 /\ a < INT32_MIN + b THEN ((a - INT32_MIN) + (INT32_MAX - b)) + 1
  ELSE IF b < 0 /\ a > INT32_MAX + b THEN (a + INT32_MIN) + (INT32_MIN - b)
  ELSE a - b

\* (mutation) the end of the request not compared with the end of the buffer
OutOfBounds_NoEnd(offset, len, buffer_len) ==
  offset < 0 \/ offset >= buffer_len \/ len < 0 \/ len > buffer_len

\* lines 1591-1592, the tests taken from left to right
OutOfBounds(offset, len, buffer_len) ==
  IF offset < 0 THEN TRUE
  ELSE IF offset >= buffer_len THEN TRUE
  ELSE IF len < 0 THEN TRUE
  ELSE IF len > buffer_len THEN TRUE
  ELSE offset > Int32Sub(buffer_len, len)

\* Asset::read(buf, count): the bytes read, at most count of them, 0 at the
\* end of the asset, a negative value on an error
ReadResults(count) == {-1, 0, 1, count}

\* lines 1586-1608
AssetRead(offset, len, buffer_len, pinned, res) ==
  IF len = 0
  THEN [ret |-> 0, read |-> FALSE, thrown |-> NoException]
  ELSE IF OutOfBounds(offset, len, buffer_len)
  THEN [ret |-> -1, read |-> FALSE, thrown |-> "IndexOutOfBoundsException"]
  ELSE IF ~pinned
  THEN [ret |-> -1, read |-> FALSE, thrown |-> "OutOfMemoryError"]
  ELSE IF res < 0
  THEN [ret |-> -1, read |-> TRUE, thrown |-> "IOException"]
  ELSE [ret |-> IF res > 0 THEN res ELSE -1, read |-> TRUE,
        thrown |-> NoException]

\* NativeAssetRead (lines 1584-1609) on an open asset
NativeAssetRead ==
  \E offset \in Offsets, len \in Offsets, buffer_len \in BufferLens,
     pinned \in BOOLEAN :
   \E res \in ReadResults(len) :
    /\ Callable
    /\ LET r == AssetRead(offset, len, buffer_len, pinned, res) IN
       DeliverOther("NativeAssetRead", NoAM,
                    [offset |-> offset, len |-> len, buffer_len |-> buffer_len],
                    [ret |-> r.ret, read |-> r.read], r.thrown)
    /\ UNCHANGED lookupFrame

\* one caller reading from an asset
AssetReadNext ==
  \/ NativeAssetRead /\ UNCHANGED themeFrame
  \/ TakeResult /\ UNCHANGED themeFrame

\* C30: NativeAssetRead reads only when 0 <= offset < buffer_len,
\* 0 < len <= buffer_len and offset + len <= buffer_len; any other request
\* of a non-zero length raises IndexOutOfBoundsException and returns -1
\* without reading; len = 0 returns 0 without reading; and for len > 0 the
\* result is a byte count from 1 to len, or -1, never 0.
C30_ReadStaysInsideBuffer ==
  delivered.op = "NativeAssetRead" =>
    LET offset == delivered.args.offset
        len == delivered.args.len
        buffer_len == delivered.args.buffer_len
        inside == /\ 0 <= offset /\ offset < buffer_len
                  /\ 0 < len /\ len <= buffer_len
                  /\ offset <= buffer_len - len
    IN /\ delivered.result.read => inside
       /\ len = 0 => /\ delivered.result.ret = 0
                     /\ ~delivered.result.read
                     /\ delivered.thrown = NoException
       /\ (len # 0 /\ ~inside)
            => /\ delivered.thrown = "IndexOutOfBoundsException"
               /\ delivered.result.ret = -1
               /\ ~delivered.result.read
       /\ len > 0 => \/ delivered.result.ret = -1
                     \/ (1 <= delivered.result.ret /\ delivered.result.ret <= len)

C30_Witness ==
  /\ delivered.op = "NativeAssetRead"
  /\ delivered.args.buffer_len = INT32_MAX
  /\ delivered.args.offset = INT32_MAX - 1
  /\ delivered.args.len = 1
  /\ delivered.result.read
  /\ delivered.result.ret = 1

(***************************************************************************)
(* Specifications.                                                         *)
(***************************************************************************)
CookieNext ==
  \/ CopyValueCookie /\ UNCHANGED cookieFrame
  \/ DecodeCallerCookie /\ UNCHANGED cookieFrame

\* the state after construction: the contexts exist, no call is in flight
Init ==
  /\ CookieStart
  /\ LockStart
  /\ MutStart
  /\ ResStart([src \in Sources |-> EmptyTable])
  /\ ThemeStart

\* one context holding a source with any of the sampled tables
RefInit ==
  /\ CookieStart
  /\ LockStart
  /\ LoadedContexts([am \in AMs |-> IF am = "A" THEN <<"X">> ELSE <<>>])
  /\ \E table \in [ResIds -> RefEntries] :
       ResStart([src \in Sources |-> IF src = "X" THEN table ELSE EmptyTable])
  /\ ThemeStart

\* two loaded sources, the contexts still empty
ThemeInit ==
  /\ CookieStart
  /\ LockStart
  /\ MutStart
  /\ ResStart(LoadedTables)
  /\ ThemeStart

\* one caller changing stacks and themes and looking attributes up
SpecTheme == ThemeInit /\ [][ThemeNext]_vars

\* two loaded contexts: base and overlay in A, the base alone in B
LoadedInit ==
  /\ CookieStart
  /\ LockStart
  /\ LoadedContexts([am \in AMs |-> IF am = "A" THEN <<"X", "Y">> ELSE <<"X">>])
  /\ ResStart(LoadedTables)
  /\ ThemeStart

\* one caller building themes by apply-style and by rebase on unchanged
\* contexts
SpecRebase == LoadedInit /\ [][RebaseNext]_vars

\* two contexts over the source that holds the styles
AttrInit ==
  /\ CookieStart
  /\ LockStart
  /\ LoadedContexts([am \in AMs |-> <<"X">>])
  /\ ResStart(StyledTables)
  /\ ThemeStart

\* one caller building themes and resolving attribute arrays
SpecAttrs == AttrInit /\ [][AttrNext]_vars

\* two themes, one on each of two loaded contexts
AttachedInit ==
  /\ CookieStart
  /\ lock = [am \in AMs |-> NoThread]
  /\ pc = [t \in Threads |-> "idle"]
  /\ call = [t \in Threads |-> NoCall]
  /\ theme_am = [th \in Themes |-> IF th = "T1" THEN "A" ELSE "B"]
  /\ aborted = FALSE
  /\ JniStart
  /\ LoadedContexts([am \in AMs |-> <<"X">>])
  /\ ResStart(StyledTables)
  /\ ThemeStart

\* concurrent callers of the entry points that hold arrays critical
SpecCritical == AttachedInit /\ [][CriticalNext]_vars

\* one caller reading from an asset into its buffers
SpecAssetRead == Init /\ [][AssetReadNext]_vars

\* the open calls on the contexts of the rebase runs
SpecOpen == LoadedInit /\ [][OpenNext]_vars

\* set-sources, with its validation, on contexts that hold the base source
SpecSetSources == AttrInit /\ [][SetSourcesNext]_vars

\* one caller changing stacks and looking resources up
SpecLookup == ThemeInit /\ [][LookupNext]_vars

\* value lookups with and without reference resolution
SpecRef == RefInit /\ [][RefNext]_vars

\* the cookie conversion applied to sampled inputs
SpecCookie == Init /\ [][CookieNext]_vars

\* concurrent callers of set-configuration, set-sources and a lookup
SpecMutation == Init /\ [][MutNext]_vars

Next == LockNext

\* concurrent callers of the theme entry points
Spec == Init /\ [][Next]_vars

====
